---- MODULE Spec2Model ----
(***************************************************************************)
(* A model of backend/main.py: the spreadsheet-as-database access layer    *)
(* of the voice-bot bridge.  The workbook (five worksheets, each a list of *)
(* rows of text cells, row 1 being the header) is the persistent state;    *)
(* the module start-up sequence and every HTTP handler is one action.      *)
(*                                                                         *)
(* Cells are modelled as text throughout: a number written into a cell is  *)
(* represented by its decimal text (ToString), which is what               *)
(* get_all_values returns for it.                                          *)
(***************************************************************************)
EXTENDS Integers, Sequences, FiniteSets, TLC

\* ------------------------------------------------------------------ bounds

\* API requests served in one behaviour (also the clock that stamps rows).
MaxClock == 2

\* Data rows a table may hold before create requests are no longer issued.
MaxRows == 3

\* ------------------------------------------------------- generic helpers

Range(s) == {s[i] : i \in 1..Len(s)}

Max2(a, b) == IF a >= b THEN a ELSE b

\* list.index(x): position (1-based) of the first occurrence, 0 when absent
\* (Python raises ValueError there; callers test membership first or fail).
IndexOf(s, x) ==
    IF \E i \in 1..Len(s) : s[i] = x
    THEN CHOOSE i \in 1..Len(s) : s[i] = x /\ \A j \in 1..(i - 1) : s[j] # x
    ELSE 0

\* A row read with missing trailing cells filled by "" up to n cells.
PadTo(row, n) == [i \in 1..Max2(n, Len(row)) |-> IF i <= Len(row) THEN row[i] ELSE ""]

\* The sequence s without its element at position i (s itself when i is out of range).
RemoveAt(s, i) ==
    IF i \in 1..Len(s)
    THEN [j \in 1..(Len(s) - 1) |-> IF j < i THEN s[j] ELSE s[j + 1]]
    ELSE s

\* ------------------------------------------------- worksheets and columns

MENU == "Menu Items"
FAQS == "FAQs"
ORDERS == "Orders"
RESERVATIONS == "Reservations"
CALLS == "Call Logs"

\* The iteration order of SHEET_COLUMNS.items().
SheetOrder == <<MENU, FAQS, ORDERS, RESERVATIONS, CALLS>>

SheetNames == Range(SheetOrder)

\* The tables the API creates, updates, deletes and lists records of.
Tables == {MENU, FAQS, ORDERS, RESERVATIONS}

SHEET_COLUMNS ==
       (MENU :> <<"id", "name", "price", "description", "category", "created_at">>)
    @@ (FAQS :> <<"id", "question", "answer", "created_at">>)
    @@ (ORDERS :> <<"id", "timestamp", "phone", "name", "items", "total",
                    "special_instructions", "status">>)
    @@ (RESERVATIONS :> <<"id", "timestamp", "phone", "name", "date", "time",
                          "party_size", "special_requests", "status">>)
    @@ (CALLS :> <<"id", "timestamp", "phone", "duration", "status", "intent",
                   "transcription", "notes">>)

\* A worksheet: whether it exists in the workbook, and its rows (row 1 first).
NoSheet == [exists |-> FALSE, rows |-> <<>>]

Sheet(rows) == [exists |-> TRUE, rows |-> rows]

\* ------------------------------------------------- the spreadsheet backend

\* ws.get_all_values(): every row, made rectangular with "" cells.
RECURSIVE MaxLen(_)
MaxLen(rows) ==
    IF rows = <<>> THEN 0 ELSE Max2(Len(Head(rows)), MaxLen(Tail(rows)))

GetAllValues(rows) == [i \in 1..Len(rows) |-> PadTo(rows[i], MaxLen(rows))]

\* ws.row_values(1): the first row without trailing empty cells; [] on an empty sheet.
RECURSIVE TrimRight(_)
TrimRight(row) ==
    IF row = <<>> THEN <<>>
    ELSE IF row[Len(row)] = "" THEN TrimRight(SubSeq(row, 1, Len(row) - 1))
    ELSE row

RowValues1(rows) == IF rows = <<>> THEN <<>> ELSE TrimRight(rows[1])

\* ws.get_all_records(): one record per data row, keyed by the cells of row 1.
GetAllRecords(rows) ==
    LET vals == GetAllValues(rows) IN
    IF vals = <<>> THEN <<>>
    ELSE [i \in 1..(Len(vals) - 1) |->
            [h \in Range(vals[1]) |-> vals[i + 1][IndexOf(vals[1], h)]]]

\* dict.get(key, default) on such a record.
Get(rec, key, default) == IF key \in DOMAIN rec THEN rec[key] ELSE default

\* ws.append_row(row): the row becomes the last row.
AppendRow(rows, row) == Append(rows, row)

\* ws.update("A{idx}:...", [row]): overwrite the leading cells of row idx,
\* growing the sheet with blank rows when idx lies past the last row.
UpdateRow(rows, idx, row) ==
    [i \in 1..Max2(Len(rows), idx) |->
        IF i = idx
        THEN [j \in 1..Max2(Len(row), IF i <= Len(rows) THEN Len(rows[i]) ELSE 0) |->
                IF j <= Len(row) THEN row[j] ELSE rows[i][j]]
        ELSE IF i <= Len(rows) THEN rows[i] ELSE <<>>]

\* ws.delete_rows(idx): the row is removed and later rows move up by one.
DeleteRows(rows, idx) == RemoveAt(rows, idx)

\* What the backend answers to one append attempt.
OK == "ok"
APIERROR == "APIError"
OTHERERROR == "Error"
Outcomes == {OK, APIERROR, OTHERERROR}

\* -------------------------------------------------------- safe_append_row

retries == 3

\* The loop body from attempt `attempt` (0-based, as range(retries)) on;
\* outs[k] is the backend's answer to the k-th attempt.
RECURSIVE safe_append_from(_, _, _, _)
safe_append_from_retry_any(rows, row, outs, attempt) ==
    IF outs[attempt + 1] = OK
    THEN [rows |-> AppendRow(rows, row), attempts |-> attempt + 1, raised |-> "none"]
    ELSE IF attempt < retries - 1
         THEN safe_append_from(rows, row, outs, attempt + 1)
         ELSE [rows |-> rows, attempts |-> attempt + 1, raised |-> outs[attempt + 1]]

safe_append_from(rows, row, outs, attempt) ==
    IF outs[attempt + 1] = OK
    THEN [rows |-> AppendRow(rows, row), attempts |-> attempt + 1, raised |-> "none"]
    ELSE IF outs[attempt + 1] = APIERROR
         THEN IF attempt < retries - 1
              THEN safe_append_from(rows, row, outs, attempt + 1)
              ELSE [rows |-> rows, attempts |-> attempt + 1, raised |-> APIERROR]
         ELSE [rows |-> rows, attempts |-> attempt + 1, raised |-> OTHERERROR]

safe_append_row(rows, row, outs) == safe_append_from(rows, row, outs, 0)

\* A bare ws.append_row(row): one attempt, whose failure is raised as it is.
append_row_once(rows, row, outs) ==
    IF outs[1] = OK
    THEN [rows |-> AppendRow(rows, row), attempts |-> 1, raised |-> "none"]
    ELSE [rows |-> rows, attempts |-> 1, raised |-> outs[1]]

\* ------------------------------------------------ the start-up sequence

AllOk == <<OK, OK, OK>>

\* ensure_sheets_exist from the k-th entry of SHEET_COLUMNS on; `existing` is
\* the list of titles read once before the loop, outs[name] the backend's
\* answers to the append attempts made for worksheet `name`, and `writes`
\* counts the add_worksheet, clear and append_row calls made so far.
RECURSIVE ensure_from(_, _, _, _, _)
ensure_from_length_only(wb, existing, outs, k, writes) ==
    IF k > Len(SheetOrder) THEN [wb |-> wb, raised |-> "none", writes |-> writes]
    ELSE
      LET name == SheetOrder[k]
          headers == SHEET_COLUMNS[name]
          fresh == name \notin existing
          current_headers == IF fresh THEN <<>> ELSE RowValues1(wb[name].rows)
      IN
      IF ~fresh /\ Len(current_headers) = Len(headers)
      THEN ensure_from(wb, existing, outs, k + 1, writes)
      ELSE
        LET r == safe_append_row(<<>>, headers, outs[name])
            wb2 == [wb EXCEPT ![name] = Sheet(r.rows)]
            w2 == writes + 1 + r.attempts
        IN
        IF r.raised # "none"
        THEN [wb |-> wb2, raised |-> r.raised, writes |-> w2]
        ELSE ensure_from(wb2, existing, outs, k + 1, w2)

ensure_from(wb, existing, outs, k, writes) ==
    IF k > Len(SheetOrder) THEN [wb |-> wb, raised |-> "none", writes |-> writes]
    ELSE
      LET name == SheetOrder[k]
          headers == SHEET_COLUMNS[name]
          fresh == name \notin existing
          current_headers == IF fresh THEN <<>> ELSE RowValues1(wb[name].rows)
      IN
      IF ~fresh /\ current_headers = headers
      THEN ensure_from(wb, existing, outs, k + 1, writes)
      ELSE
        \* add_worksheet (a new, empty sheet) or ws.clear(), then the header
        LET r == safe_append_row(<<>>, headers, outs[name])
            wb2 == [wb EXCEPT ![name] = Sheet(r.rows)]
            w2 == writes + 1 + r.attempts
        IN
        IF r.raised # "none"
        THEN [wb |-> wb2, raised |-> r.raised, writes |-> w2]
        ELSE ensure_from(wb2, existing, outs, k + 1, w2)

ensure_sheets_exist(wb, outs) ==
    ensure_from(wb, {n \in SheetNames : wb[n].exists}, outs, 1, 0)

\* str(uuid.uuid4()): the n-th identity drawn by the process.
Uuid_drawn_once(n) == "s1"

Uuid(n) == ToString(n)

\* The migration loop of fix_menu_items_structure from the i-th legacy record
\* on; outs[1] answers the header append, outs[1 + i] the i-th record's.
RECURSIVE migrate_from(_, _, _, _, _, _)
migrate_from(rows, all_data, outs, i, id0, now) ==
    IF i > Len(all_data) THEN [rows |-> rows, raised |-> "none", used |-> Len(all_data)]
    ELSE
      LET item == all_data[i]
          new_row == << Uuid(id0 + i),
                        Get(item, "name", ""),
                        Get(item, "price", "0"),
                        Get(item, "description", ""),
                        Get(item, "category", ""),
                        ToString(now) >>
          r == safe_append_row(rows, new_row, outs[1 + i])
      IN
      IF r.raised # "none"
      THEN [rows |-> r.rows, raised |-> r.raised, used |-> i]
      ELSE migrate_from(r.rows, all_data, outs, i + 1, id0, now)

\* fix_menu_items_structure; id0 is the number of identities drawn so far.
fix_menu_items_structure(wb, outs, id0, now) ==
    IF ~wb[MENU].exists
    THEN \* WorksheetNotFound: create the sheet with its header
         LET r == safe_append_row(<<>>, SHEET_COLUMNS[MENU], outs[1])
         IN [wb |-> [wb EXCEPT ![MENU] = Sheet(r.rows)], raised |-> r.raised, used |-> 0]
    ELSE IF RowValues1(wb[MENU].rows) # SHEET_COLUMNS[MENU]
    THEN LET all_data == GetAllRecords(wb[MENU].rows)
             h == safe_append_row(<<>>, SHEET_COLUMNS[MENU], outs[1])
         IN IF h.raised # "none"
            THEN [wb |-> [wb EXCEPT ![MENU] = Sheet(h.rows)], raised |-> h.raised, used |-> 0]
            ELSE LET m == migrate_from(h.rows, all_data, outs, 1, id0, now)
                 IN [wb |-> [wb EXCEPT ![MENU] = Sheet(m.rows)],
                     raised |-> m.raised, used |-> m.used]
    ELSE [wb |-> wb, raised |-> "none", used |-> 0]

\* ------------------------------------------------------ input validation

\* str.strip() on the texts used here.
Strip(s) ==
    CASE s = " Fries " -> "Fries"
      [] s = " yes " -> "yes"
      [] s = "  " -> ""
      [] s = " " -> ""
      [] s = " +14155552671 " -> "+14155552671"
      [] s = " <Response><Dial/></Response> " -> "<Response><Dial/></Response>"
      [] OTHER -> s

\* round(v, 2) of a price given in thousandths.
Round2(v) == ((v + 5) \div 10) * 10

NoValue == [none |-> TRUE]

Valid(value) == [ok |-> TRUE, value |-> value]

Invalid == [ok |-> FALSE, value |-> NoValue]

\* normalize_phone: parse without a default region, require a valid number,
\* format as E.164.  A text without a leading country code does not parse;
\* "+1 555" parses but is no valid number.
normalize_phone(v) ==
    LET s == Strip(v) IN
    CASE s \in {"+14155552671", "+1 415-555-2671", "+1 (415) 555-2671"} -> Valid("+14155552671")
      [] s = "+1 555" -> Invalid
      [] OTHER -> Invalid

\* class MenuItem: must_be_positive and name_not_empty.
MenuItem(raw) ==
    IF raw.price <= 0 \/ Strip(raw.name) = "" THEN Invalid
    ELSE Valid([raw EXCEPT !.price = Round2(raw.price), !.name = Strip(raw.name)])

\* class FAQ: not_blank on question and answer.
FAQ(raw) ==
    IF Strip(raw.question) = "" \/ Strip(raw.answer) = "" THEN Invalid
    ELSE Valid([raw EXCEPT !.question = Strip(raw.question), !.answer = Strip(raw.answer)])

\* class Order: normalize_phone and at_least_one_item.
Order(raw) ==
    LET ph == normalize_phone(raw.phone) IN
    IF ~ph.ok \/ raw.items = <<>> THEN Invalid
    ELSE Valid([raw EXCEPT !.phone = ph.value])

\* class Reservation: party_size_positive and normalize_phone.
Reservation(raw) ==
    LET ph == normalize_phone(raw.phone) IN
    IF raw.party_size <= 0 \/ ~ph.ok THEN Invalid
    ELSE Valid([raw EXCEPT !.phone = ph.value])

\* datetime.strptime(s, "%Y-%m-%d") and (s, "%H:%M") succeed on these texts.
ParsesAsDate(s) == s \in {"2024-05-01", "2024-12-31", "2024-02-29"}

ParsesAsTime(s) == s \in {"18:30", "09:05", "00:00", "23:59"}

\* json.dumps of a list of item names, and json.loads of a cell.
ItemLists == {<<>>, <<"pizza">>, <<"pizza", "cola">>}

JsonDumps(items) ==
    CASE items = <<>> -> "[]"
      [] items = <<"pizza">> -> "[\"pizza\"]"
      [] items = <<"pizza", "cola">> -> "[\"pizza\", \"cola\"]"

JsonLoads(cell) ==
    IF \E l \in ItemLists : JsonDumps(l) = cell
    THEN Valid(CHOOSE l \in ItemLists : JsonDumps(l) = cell)
    ELSE Invalid

\* Python's None, and the cell gspread writes for it.
None == "<None>"

Cell(v) == IF v = None THEN "" ELSE v

\* `x or default` on a text or None.
OrElse(v, default) == IF v = None \/ v = "" THEN default ELSE v

\* ------------------------------------------------------- handler outcomes

NOEXC == "none"
NOTFOUND == "HTTPException(404)"
BADREQUEST == "HTTPException(400)"
SCHEMAERROR == "HTTPException(500)"
INDEXERROR == "IndexError"
KEYERROR == "KeyError"
VALUEERROR == "ValueError"
WSNOTFOUND == "WorksheetNotFound"

\* What a handler did: the workbook it leaves, the HTTP status, the exception
\* raised inside its try block, the response body, the append attempts made,
\* the backend writes made, and the identity it drew ("" when none).
Result(wb, status, exc, body, attempts, writes, newId) ==
    [wb |-> wb, status |-> status, exc |-> exc, body |-> body, attempts |-> attempts,
     writes |-> writes, newId |-> newId]

\* The CRUD handlers' `except Exception as e: raise HTTPException(500, ...)`:
\* every exception raised in the try block, an HTTPException included, is
\* caught there.
crud_status(exc) == IF exc = NOEXC THEN 200 ELSE 500

\* The except chain of the tool-call handlers: KeyError, JSONDecodeError and
\* ValueError give 400, any other exception 500.
tool_status(exc) ==
    CASE exc = NOEXC -> 200
      [] exc \in {KEYERROR, "JSONDecodeError", VALUEERROR} -> 400
      [] OTHER -> 500

\* FastAPI's answer when the request body fails the model's validators: the
\* handler is not called.
UNPROCESSABLE == 422

Rejected(wb) == Result(wb, UNPROCESSABLE, "RequestValidationError", <<>>, 0, 0, "")

\* for idx, row in enumerate(all_values[1:], start=2): the first row whose
\* cell in column id_col equals id; 0 when the loop ends without a match.
FindRowIndexById_start1(all_values, id_col, id) ==
    LET hits == {i \in 2..Len(all_values) : all_values[i][id_col] = id} IN
    IF hits = {} THEN 0 ELSE (CHOOSE i \in hits : \A j \in hits : i <= j) - 1

FindRowIndexById_from1(all_values, id_col, id) ==
    LET hits == {i \in 1..Len(all_values) : all_values[i][id_col] = id} IN
    IF hits = {} THEN 0 ELSE CHOOSE i \in hits : \A j \in hits : i <= j

FindRowIndexById_last(all_values, id_col, id) ==
    LET hits == {i \in 2..Len(all_values) : all_values[i][id_col] = id} IN
    IF hits = {} THEN 0 ELSE CHOOSE i \in hits : \A j \in hits : j <= i

FindRowIndexById(all_values, id_col, id) ==
    LET hits == {i \in 2..Len(all_values) : all_values[i][id_col] = id} IN
    IF hits = {} THEN 0 ELSE CHOOSE i \in hits : \A j \in hits : i <= j

\* What the backend answers to the read (get_all_values) and to the write
\* (ws.update or ws.delete_rows) of one update or delete request.
ReadWriteOutcomes == {<<OK, OK>>, <<OK, APIERROR>>, <<OK, OTHERERROR>>, <<APIERROR, OK>>}

ReadWriteOk == <<OK, OK>>

\* The first part of every update and delete handler: look the worksheet up,
\* read all values, take the header's "id" column and scan for the id.
\* `checked` says whether the handler tests `"id" in headers` itself (then
\* raising HTTPException(500)) before headers.index("id"); `read` is the
\* backend's answer to get_all_values.
Locate(wb, name, id, checked, read) ==
    IF ~wb[name].exists THEN [exc |-> WSNOTFOUND, idx |-> 0]
    ELSE IF read # OK THEN [exc |-> read, idx |-> 0]
    ELSE
      LET all_values == GetAllValues(wb[name].rows) IN
      IF all_values = <<>> THEN [exc |-> INDEXERROR, idx |-> 0]
      ELSE
        LET id_col == IndexOf(all_values[1], "id") IN
        IF id_col = 0
        THEN [exc |-> IF checked THEN SCHEMAERROR ELSE VALUEERROR, idx |-> 0]
        ELSE
          LET idx == FindRowIndexById(all_values, id_col, id) IN
          IF idx = 0 THEN [exc |-> NOTFOUND, idx |-> 0] ELSE [exc |-> NOEXC, idx |-> idx]

\* The shared shape of update_menu_item, update_faq, update_order and
\* update_reservation: locate the row, then overwrite it with new_row in one
\* ws.update call; outs are the backend's answers to the read and the write.
update_by_id_append(wb, name, id, new_row, outs) ==
    Result([wb EXCEPT ![name].rows = AppendRow(@, new_row)], 200, NOEXC, <<>>, 0, 1, "")

update_by_id_retry(wb, name, id, new_row, outs) ==
    LET l == Locate(wb, name, id, FALSE, outs[1]) IN
    IF l.exc # NOEXC THEN Result(wb, crud_status(l.exc), l.exc, <<>>, 0, 0, "")
    ELSE IF outs[2] = APIERROR
    THEN Result([wb EXCEPT ![name].rows = UpdateRow(@, l.idx, new_row)],
                crud_status(NOEXC), NOEXC, <<>>, 0, 2, "")
    ELSE IF outs[2] # OK THEN Result(wb, crud_status(outs[2]), outs[2], <<>>, 0, 1, "")
    ELSE Result([wb EXCEPT ![name].rows = UpdateRow(@, l.idx, new_row)],
                crud_status(NOEXC), NOEXC, <<>>, 0, 1, "")

update_by_id(wb, name, id, new_row, outs) ==
    LET l == Locate(wb, name, id, FALSE, outs[1]) IN
    IF l.exc # NOEXC THEN Result(wb, crud_status(l.exc), l.exc, <<>>, 0, 0, "")
    ELSE IF outs[2] # OK THEN Result(wb, crud_status(outs[2]), outs[2], <<>>, 0, 1, "")
    ELSE Result([wb EXCEPT ![name].rows = UpdateRow(@, l.idx, new_row)],
                crud_status(NOEXC), NOEXC, <<>>, 0, 1, "")

\* The shape of delete_menu_item, delete_order and delete_reservation:
\* locate the row, then remove it in one ws.delete_rows call.
delete_by_id(wb, name, id, checked, outs) ==
    LET l == Locate(wb, name, id, checked, outs[1]) IN
    IF l.exc # NOEXC THEN Result(wb, crud_status(l.exc), l.exc, <<>>, 0, 0, "")
    ELSE IF outs[2] # OK THEN Result(wb, crud_status(outs[2]), outs[2], <<>>, 0, 1, "")
    ELSE Result([wb EXCEPT ![name].rows = DeleteRows(@, l.idx)],
                crud_status(NOEXC), NOEXC, <<>>, 0, 1, "")

\* The shape of the create handlers that go through safe_append_row.
create_row(wb, name, row, outs, newId) ==
    IF ~wb[name].exists THEN Result(wb, crud_status(WSNOTFOUND), WSNOTFOUND, <<>>, 0, 0, "")
    ELSE
      LET r == safe_append_row(wb[name].rows, row, outs) IN
      Result([wb EXCEPT ![name].rows = r.rows], crud_status(r.raised), r.raised, <<>>,
             r.attempts, r.attempts, IF r.raised = NOEXC THEN newId ELSE "")

\* ---------------------------------------------------------- Menu Items

\* GET /api/menu-items
get_menu_items(wb) ==
    IF ~wb[MENU].exists THEN Result(wb, crud_status(WSNOTFOUND), WSNOTFOUND, <<>>, 0, 0, "")
    ELSE Result(wb, 200, NOEXC, GetAllRecords(wb[MENU].rows), 0, 0, "")

MenuRow(id, item, now) ==
    <<id, item.name, ToString(item.price), item.description, item.category, ToString(now)>>

\* POST /api/menu-items
add_menu_item(wb, item, outs, newId, now) ==
    create_row(wb, MENU, MenuRow(newId, item, now), outs, newId)

\* PUT /api/menu-items/{item_id}
update_menu_item(wb, item_id, item, now, outs) ==
    update_by_id(wb, MENU, item_id, MenuRow(item_id, item, now), outs)

\* DELETE /api/menu-items/{item_id}
delete_menu_item(wb, item_id, outs) == delete_by_id(wb, MENU, item_id, TRUE, outs)

\* ---------------------------------------------------------------- FAQs

\* GET /api/faqs: the records with a non-empty id, question and answer.
get_faqs(wb) ==
    IF ~wb[FAQS].exists THEN Result(wb, crud_status(WSNOTFOUND), WSNOTFOUND, <<>>, 0, 0, "")
    ELSE Result(wb, 200, NOEXC,
                SelectSeq(GetAllRecords(wb[FAQS].rows),
                          LAMBDA r : Get(r, "id", "") # "" /\ Get(r, "question", "") # ""
                                     /\ Get(r, "answer", "") # ""),
                0, 0, "")

FaqRow(id, faq, now) == <<id, faq.question, faq.answer, ToString(now)>>

\* not any(cell.strip() for cell in r)
IsBlankRow(r) == \A j \in 1..Len(r) : Strip(r[j]) = ""

\* The loop run from the lowest index to the highest instead.
RECURSIVE DeleteAscending(_, _)
DeleteAscending(rows, idxs) ==
    IF idxs = {} THEN rows
    ELSE LET low == CHOOSE i \in idxs : \A j \in idxs : i <= j
         IN DeleteAscending(DeleteRows(rows, low), idxs \ {low})

\* for ridx in sorted(empty_rows, reverse=True): ws.delete_rows(ridx)
RECURSIVE DeleteDescending(_, _)
DeleteDescending(rows, idxs) ==
    IF idxs = {} THEN rows
    ELSE LET top == CHOOSE i \in idxs : \A j \in idxs : j <= i
         IN DeleteDescending(DeleteRows(rows, top), idxs \ {top})

\* POST /api/faqs: blank rows are deleted, then the new row is appended.
add_faq(wb, faq, outs, newId, now) ==
    IF ~wb[FAQS].exists THEN Result(wb, crud_status(WSNOTFOUND), WSNOTFOUND, <<>>, 0, 0, "")
    ELSE
      LET all_values == GetAllValues(wb[FAQS].rows)
          empty_rows == {i \in 2..Len(all_values) : IsBlankRow(all_values[i])}
          pruned == DeleteDescending(wb[FAQS].rows, empty_rows)
          r == safe_append_row(pruned, FaqRow(newId, faq, now), outs)
      IN Result([wb EXCEPT ![FAQS].rows = r.rows], crud_status(r.raised), r.raised, <<>>,
                r.attempts, Cardinality(empty_rows) + r.attempts,
                IF r.raised = NOEXC THEN newId ELSE "")

\* PUT /api/faqs/{faq_id}
update_faq(wb, faq_id, faq, now, outs) ==
    update_by_id(wb, FAQS, faq_id, FaqRow(faq_id, faq, now), outs)

\* DELETE /api/faqs/{faq_id}: matches on the first cell of each row, without
\* reading the header.
LocateFirstCell(wb, faq_id, read) ==
    IF ~wb[FAQS].exists THEN [exc |-> WSNOTFOUND, idx |-> 0]
    ELSE IF read # OK THEN [exc |-> read, idx |-> 0]
    ELSE
      LET all_values == GetAllValues(wb[FAQS].rows)
          hits == {i \in 2..Len(all_values) :
                     all_values[i] # <<>> /\ all_values[i][1] = faq_id}
      IN
      IF hits = {} THEN [exc |-> NOTFOUND, idx |-> 0]
      ELSE [exc |-> NOEXC, idx |-> CHOOSE i \in hits : \A j \in hits : i <= j]

delete_faq(wb, faq_id, outs) ==
    LET l == LocateFirstCell(wb, faq_id, outs[1]) IN
    IF l.exc # NOEXC THEN Result(wb, crud_status(l.exc), l.exc, <<>>, 0, 0, "")
    ELSE IF outs[2] # OK THEN Result(wb, crud_status(outs[2]), outs[2], <<>>, 0, 1, "")
    ELSE Result([wb EXCEPT ![FAQS].rows = DeleteRows(@, l.idx)],
                crud_status(NOEXC), NOEXC, <<>>, 0, 1, "")

\* --------------------------------------------------------------- Orders

\* The self-healing branch of get_orders and get_reservations: the sheet is
\* cleared and the expected header appended.
heal_header(wb, name, outs) ==
    LET r == safe_append_row(<<>>, SHEET_COLUMNS[name], outs) IN
    Result([wb EXCEPT ![name].rows = r.rows], crud_status(r.raised), r.raised, <<>>,
           r.attempts, 1 + r.attempts, "")

\* get_all_records turns a cell that reads as a number into a number.
IsNumberText(cell) == cell \in {ToString(n) : n \in 0..9}

\* The per-record decoding of get_orders: json.loads of an items cell that is
\* a non-empty text, [] for any other cell and for a text that is no JSON.
DecodeOrder(record) ==
    LET cell == Get(record, "items", "")
        isText == cell # "" /\ ~IsNumberText(cell)
        parsed == JsonLoads(cell)
        withItems == [k \in DOMAIN record \cup {"items"} |->
                        IF k = "items"
                        THEN (IF isText /\ parsed.ok THEN parsed.value ELSE <<>>)
                        ELSE record[k]]
    IN IF isText /\ ~parsed.ok
       THEN withItems     \* JSONDecodeError: items = [], name left as read
       ELSE [k \in DOMAIN withItems \cup {"name"} |->
               IF k = "name" THEN Get(record, "name", "Unknown") ELSE withItems[k]]

\* GET /api/orders
get_orders_uncaught(wb, outs) ==
    IF ~wb[ORDERS].exists THEN Result(wb, crud_status(WSNOTFOUND), WSNOTFOUND, <<>>, 0, 0, "")
    ELSE
      LET values == GetAllValues(wb[ORDERS].rows) IN
      IF values = <<>> \/ values[1] # SHEET_COLUMNS[ORDERS]
      THEN heal_header(wb, ORDERS, outs)
      ELSE IF Len(values) = 1 THEN Result(wb, 200, NOEXC, <<>>, 0, 0, "")
      ELSE LET records == GetAllRecords(wb[ORDERS].rows) IN
           IF \E i \in 1..Len(records) :
                LET cell == Get(records[i], "items", "") IN
                cell # "" /\ ~IsNumberText(cell) /\ ~JsonLoads(cell).ok
           THEN Result(wb, crud_status("JSONDecodeError"), "JSONDecodeError", <<>>, 0, 0, "")
           ELSE Result(wb, 200, NOEXC, [i \in 1..Len(records) |-> DecodeOrder(records[i])],
                       0, 0, "")

get_orders(wb, outs) ==
    IF ~wb[ORDERS].exists THEN Result(wb, crud_status(WSNOTFOUND), WSNOTFOUND, <<>>, 0, 0, "")
    ELSE
      LET values == GetAllValues(wb[ORDERS].rows) IN
      IF values = <<>> \/ values[1] # SHEET_COLUMNS[ORDERS]
      THEN heal_header(wb, ORDERS, outs)
      ELSE IF Len(values) = 1 THEN Result(wb, 200, NOEXC, <<>>, 0, 0, "")
      ELSE LET records == GetAllRecords(wb[ORDERS].rows) IN
           Result(wb, 200, NOEXC, [i \in 1..Len(records) |-> DecodeOrder(records[i])],
                  0, 0, "")

\* The tool-call payload shapes: the full one, and those lacking a part of
\* message.toolCalls[0].function.arguments.
FULL == "full"
PayloadShapes ==
    {FULL, "no_message", "no_toolCalls", "empty_toolCalls", "no_function", "no_arguments"}

OrderRow(id, order, now) ==
    <<id, ToString(now), order.phone, order.name, JsonDumps(order.items),
      ToString(order.total), OrElse(order.special_instructions, ""), order.status>>

\* POST /api/order-complete
handle_order_write_first(wb, payload, outs, newId, now) ==
    LET r == safe_append_row(wb[ORDERS].rows,
                             <<newId, ToString(now), payload.arguments.phone,
                               payload.arguments.name, JsonDumps(payload.arguments.items),
                               ToString(payload.arguments.total), "", "New">>, outs)
        order == Order(payload.arguments)
        exc == IF r.raised # NOEXC THEN r.raised
               ELSE IF ~order.ok \/ payload.arguments.total < 0 THEN VALUEERROR ELSE NOEXC
    IN Result([wb EXCEPT ![ORDERS].rows = r.rows], tool_status(exc), exc, <<>>,
              r.attempts, r.attempts, IF exc = NOEXC THEN newId ELSE "")

handle_order(wb, payload, outs, newId, now) ==
    IF payload.shape \in {"no_message", "no_toolCalls", "empty_toolCalls"}
    THEN Result(wb, tool_status(BADREQUEST), BADREQUEST, <<>>, 0, 0, "")
    ELSE IF payload.shape \in {"no_function", "no_arguments"}
    THEN Result(wb, tool_status(KEYERROR), KEYERROR, <<>>, 0, 0, "")
    ELSE
      LET order == Order(payload.arguments) IN
      IF ~order.ok THEN Result(wb, tool_status(VALUEERROR), VALUEERROR, <<>>, 0, 0, "")
      ELSE IF order.value.total < 0
      THEN Result(wb, tool_status(VALUEERROR), VALUEERROR, <<>>, 0, 0, "")
      ELSE IF ~wb[ORDERS].exists
      THEN Result(wb, tool_status(WSNOTFOUND), WSNOTFOUND, <<>>, 0, 0, "")
      ELSE
        LET r == safe_append_row(wb[ORDERS].rows, OrderRow(newId, order.value, now), outs) IN
        Result([wb EXCEPT ![ORDERS].rows = r.rows], tool_status(r.raised), r.raised, <<>>,
               r.attempts, r.attempts, IF r.raised = NOEXC THEN newId ELSE "")

\* PUT /api/orders/{order_id}
OrderUpdateRow(order_id, order, now) ==
    <<order_id, ToString(now), order.phone, order.name, JsonDumps(order.items),
      ToString(order.total), Cell(order.special_instructions), order.status>>

update_order(wb, order_id, order, now, outs) ==
    update_by_id(wb, ORDERS, order_id, OrderUpdateRow(order_id, order, now), outs)

\* DELETE /api/orders/{order_id}
delete_order(wb, order_id, outs) == delete_by_id(wb, ORDERS, order_id, FALSE, outs)

\* ---------------------------------------------------------- Reservations

\* GET /api/reservations
get_reservations(wb, outs) ==
    IF ~wb[RESERVATIONS].exists
    THEN Result(wb, crud_status(WSNOTFOUND), WSNOTFOUND, <<>>, 0, 0, "")
    ELSE
      LET values == GetAllValues(wb[RESERVATIONS].rows) IN
      IF values = <<>> \/ values[1] # SHEET_COLUMNS[RESERVATIONS]
      THEN heal_header(wb, RESERVATIONS, outs)
      ELSE IF Len(values) = 1 THEN Result(wb, 200, NOEXC, <<>>, 0, 0, "")
      ELSE LET records == GetAllRecords(wb[RESERVATIONS].rows) IN
           Result(wb, 200, NOEXC,
                  [i \in 1..Len(records) |->
                     [k \in DOMAIN records[i] \cup {"name"} |->
                        IF k = "name" THEN Get(records[i], "name", "Unknown")
                        ELSE records[i][k]]],
                  0, 0, "")

\* The row handle_reservation builds: eight cells, the name not among them.
ReservationCreateRow(id, res, now) ==
    <<id, ToString(now), res.phone, res.date, res.time, ToString(res.party_size),
      OrElse(res.special_requests, "None"), "New">>

\* POST /api/reservation-complete
handle_reservation(wb, payload, outs, newId, now) ==
    IF payload.shape = "empty_toolCalls"
    THEN Result(wb, tool_status(INDEXERROR), INDEXERROR, <<>>, 0, 0, "")
    ELSE IF payload.shape # FULL
    THEN Result(wb, tool_status(KEYERROR), KEYERROR, <<>>, 0, 0, "")
    ELSE
      LET reservation == Reservation(payload.arguments) IN
      IF ~reservation.ok THEN Result(wb, tool_status(VALUEERROR), VALUEERROR, <<>>, 0, 0, "")
      ELSE IF ~ParsesAsDate(reservation.value.date)
      THEN Result(wb, tool_status(VALUEERROR), VALUEERROR, <<>>, 0, 0, "")
      ELSE IF ~ParsesAsTime(reservation.value.time)
      THEN Result(wb, tool_status(VALUEERROR), VALUEERROR, <<>>, 0, 0, "")
      ELSE IF reservation.value.party_size <= 0 \/ reservation.value.party_size > 20
      THEN Result(wb, tool_status(VALUEERROR), VALUEERROR, <<>>, 0, 0, "")
      ELSE IF ~wb[RESERVATIONS].exists
      THEN Result(wb, tool_status(WSNOTFOUND), WSNOTFOUND, <<>>, 0, 0, "")
      ELSE
        LET r == append_row_once(wb[RESERVATIONS].rows,
                                 ReservationCreateRow(newId, reservation.value, now), outs)
        IN Result([wb EXCEPT ![RESERVATIONS].rows = r.rows], tool_status(r.raised),
                  r.raised, <<>>, r.attempts, r.attempts,
                  IF r.raised = NOEXC THEN newId ELSE "")

\* PUT /api/reservations/{res_id}
ReservationUpdateRow(res_id, res, now) ==
    <<res_id, ToString(now), res.phone, res.name, res.date, res.time,
      ToString(res.party_size), Cell(res.special_requests), res.status>>

update_reservation(wb, res_id, res, now, outs) ==
    update_by_id(wb, RESERVATIONS, res_id, ReservationUpdateRow(res_id, res, now), outs)

\* DELETE /api/reservations/{res_id}
delete_reservation(wb, res_id, outs) ==
    delete_by_id(wb, RESERVATIONS, res_id, TRUE, outs)

\* ------------------------------------------------------------ Call Logs

\* The row create_call_log builds: the call is in progress, its duration "0",
\* and summary, sentiment and recording are blank.
CallLogRow_completed(call_id, now, phone) ==
    <<call_id, ToString(now), phone, "0", "completed", "", "", "">>

CallLogRow(call_id, now, phone) ==
    <<call_id, ToString(now), phone, "0", "in-progress", "", "", "">>

\* create_call_log: appends the call's row through safe_append_row; every
\* exception is caught and None returned, so `raised` is never set.
create_call_log_raising(wb, phone, outs, newId, now) ==
    IF ~wb[CALLS].exists THEN [wb |-> wb, raised |-> WSNOTFOUND, call_id |-> None, attempts |-> 0]
    ELSE
      LET r == safe_append_row(wb[CALLS].rows, CallLogRow(newId, now, phone), outs)
      IN [wb |-> [wb EXCEPT ![CALLS].rows = r.rows], raised |-> r.raised,
          call_id |-> IF r.raised = NOEXC THEN newId ELSE None, attempts |-> r.attempts]

create_call_log(wb, phone, outs, newId, now) ==
    IF ~wb[CALLS].exists THEN [wb |-> wb, raised |-> NOEXC, call_id |-> None, attempts |-> 0]
    ELSE
      LET r == safe_append_row(wb[CALLS].rows, CallLogRow(newId, now, phone), outs)
      IN [wb |-> [wb EXCEPT ![CALLS].rows = r.rows], raised |-> NOEXC,
          call_id |-> IF r.raised = NOEXC THEN newId ELSE None, attempts |-> r.attempts]

\* The fixed markup the webhook answers with when it cannot pass the
\* provider's on.
UnableToConnect == "<Response><Say>Unable to connect to assistant</Say></Response>"
ConfigurationError == "<Response><Say>Assistant configuration error</Say></Response>"
ResponseError == "<Response><Say>Assistant response error</Say></Response>"
SystemError == "<Response><Say>System error</Say></Response>"

Fallbacks == {UnableToConnect, ConfigurationError, ResponseError, SystemError}

\* What the assistant provider does with the POST to /call: the request
\* raises, or it answers with a status and a body.  The body is no JSON, or
\* a JSON object without phoneCallProviderDetails, with a null one, with one
\* that has no twiml, with a twiml that is no text, or with a twiml text.
NOTJSON == "not_json"
NODETAILS == "no_details"
NULLDETAILS == "null_details"
NOTWIML == "no_twiml"
TWIMLNOTTEXT == "twiml_not_text"
TWIML == "twiml"

AssistantAnswer(raises, status, json, twiml) ==
    [raises |-> raises, status |-> status, json |-> json, twiml |-> twiml]

\* The menu and FAQ summary of inbound_call: its inner try block ends in the
\* except branch when a worksheet is missing, a read fails, or a price is no
\* number (the ":.2f" format of an empty cell).
summary_available(wb, read) ==
    /\ wb[MENU].exists /\ wb[FAQS].exists /\ read = OK
    /\ LET menu_items == GetAllRecords(wb[MENU].rows) IN
       \A i \in 1..Len(menu_items) : Get(menu_items[i], "price", "0") # ""

\* POST /inbound_call: the markup answered (always with status 200), the
\* exception its outer try block ended with, and the summary sent to the
\* assistant.
inbound_call(wb, caller, read, resp, outs, newId, now) ==
    LET sent == IF summary_available(wb, read) THEN "summary" ELSE "unavailable"
        answer(w, exc, content, attempts, id) ==
            [wb |-> w, status |-> 200, exc |-> exc, body |-> content, attempts |-> attempts,
             writes |-> attempts, newId |-> id, sent |-> sent]
    IN
    IF resp.raises THEN answer(wb, "HTTPError", SystemError, 0, "")
    ELSE IF resp.status \notin {200, 201} THEN answer(wb, NOEXC, UnableToConnect, 0, "")
    ELSE IF resp.json = NOTJSON THEN answer(wb, "JSONDecodeError", SystemError, 0, "")
    ELSE IF resp.json = NODETAILS THEN answer(wb, NOEXC, ConfigurationError, 0, "")
    ELSE IF resp.json = NULLDETAILS THEN answer(wb, "AttributeError", SystemError, 0, "")
    ELSE IF resp.json = NOTWIML THEN answer(wb, NOEXC, ResponseError, 0, "")
    ELSE IF resp.json = TWIMLNOTTEXT THEN answer(wb, "AttributeError", SystemError, 0, "")
    ELSE IF resp.twiml = "" \/ Strip(resp.twiml) = ""
    THEN answer(wb, NOEXC, ResponseError, 0, "")
    ELSE
      LET log == create_call_log(wb, caller, outs, newId, now) IN
      IF log.raised # NOEXC
      THEN answer(log.wb, log.raised, SystemError, log.attempts, "")
      ELSE answer(log.wb, NOEXC, resp.twiml, log.attempts,
                  IF log.call_id = None THEN "" ELSE log.call_id)

\* ------------------------------------------ the workbook before start-up

\* Rows as the handlers write them (ids s1, s2), stamped at time 0.
SeedRows ==
       (MENU :> << <<"s1", "Burger", "10000", "x", "Mains", "0">>,
                   <<"s2", "Fries", "2500", "y", "Sides", "0">> >>)
    @@ (FAQS :> << <<"s1", "Hours?", "9-5", "0">>,
                   <<"s2", "Parking?", "yes", "0">> >>)
    @@ (ORDERS :> << <<"s1", "0", "+14155552671", "Ann", "[\"pizza\"]", "1250", "", "New">>,
                     <<"s2", "0", "+14155552671", "Bob", "[\"pizza\", \"cola\"]", "0", "hot",
                       "Done">> >>)
    @@ (RESERVATIONS :> << <<"s1", "0", "+14155552671", "Ann", "2024-05-01", "18:30", "4",
                             "window", "New">>,
                           <<"s2", "0", "+14155552671", "Bob", "2024-12-31", "09:05", "20",
                             "", "Confirmed">> >>)
    @@ (CALLS :> << <<"s1", "0", "+14155552671", "0", "in-progress", "", "", "">>,
                    <<"s2", "0", "+14155552671", "0", "in-progress", "", "", "">> >>)

\* A header that has drifted from SHEET_COLUMNS, with the data under it.
LegacyRows ==
       (MENU :> << <<"name", "price", "category">>,
                   <<"Soup", "4500", "Starters">>,
                   <<"Pie", "3000", "Dessert">> >>)
    @@ (FAQS :> << <<"question", "answer", "id", "created_at">>,
                   <<"Hours?", "9-5", "s1", "0">> >>)
    @@ (ORDERS :> << <<"id", "phone", "items">>, <<"s1", "+14155552671", "[\"pizza\"]">> >>)
    @@ (RESERVATIONS :> << <<"id", "timestamp", "phone", "date", "time", "party_size",
                             "special_requests", "status">>,
                           <<"s1", "0", "+14155552671", "2024-05-01", "18:30", "4", "window",
                             "New">> >>)
    @@ (CALLS :> << <<"timestamp", "phone">>, <<"0", "+14155552671">> >>)

\* Data rows as an operator of the spreadsheet leaves them under the
\* canonical header: a row copied with its id, a blank row between records,
\* items cells typed by hand.
EditedRows ==
       (MENU :> << <<"d1", "Burger", "10000", "x", "Mains", "0">>,
                   <<"d1", "Fries", "2500", "y", "Sides", "0">>,
                   <<"s2", "Cola", "1500", "z", "Drinks", "0">> >>)
    @@ (FAQS :> << <<"d1", "Hours?", "9-5", "0">>,
                   <<"", "", "", "">>,
                   <<"d1", "Parking?", "yes", "0">> >>)
    @@ (ORDERS :> << <<"d1", "0", "+14155552671", "Ann", "[1,2", "1250", "", "New">>,
                     <<"d1", "0", "+14155552671", "Bob", "", "0", "hot", "Done">>,
                     <<"s2", "0", "+14155552671", "Cy", "5", "300", "", "New">>,
                     <<"s3", "0", "+14155552671", "Di", "[\"pizza\", \"cola\"]", "700", "",
                       "New">> >>)
    @@ (RESERVATIONS :> << <<"d1", "0", "+14155552671", "Ann", "2024-05-01", "18:30", "4",
                             "window", "New">>,
                           <<"d1", "0", "+14155552671", "Bob", "2024-12-31", "09:05", "20",
                             "", "Confirmed">>,
                           <<"s2", "0", "+14155552671", "Cy", "2024-02-29", "23:59", "2",
                             "", "New">> >>)
    @@ (CALLS :> << <<"s1", "0", "+14155552671", "0", "in-progress", "", "", "">> >>)

\* FAQ rows an operator cleared by hand: a row of empty cells and a row of
\* cells holding a space, each in front of a record.
BlankedFaqRows ==
    << <<"", "", "", "">>,
       <<"s1", "Hours?", "9-5", "0">>,
       <<" ", "", " ", "">>,
       <<"s2", "Parking?", "yes", "0">> >>

\* Tables whose header row has no "id" column, with the data under it.
NoIdRows ==
       (MENU :> << <<"name", "price", "category">>, <<"Soup", "4500", "Starters">> >>)
    @@ (FAQS :> << <<"question", "answer", "created_at">>,
                   <<"Hours?", "9-5", "0">>, <<"Parking?", "yes", "0">> >>)
    @@ (ORDERS :> << <<"phone", "items", "total">>,
                     <<"+14155552671", "[\"pizza\"]", "1250">> >>)
    @@ (RESERVATIONS :> << <<"phone", "date", "time">>,
                           <<"+14155552671", "2024-05-01", "18:30">> >>)
    @@ (CALLS :> << <<"timestamp", "phone">>, <<"0", "+14155552671">> >>)

MISSING == "missing"
EMPTY == "empty"
DRIFTED == "drifted"
WELLFORMED == "wellformed"
HEADERONLY == "header_only"
EDITED == "edited"
NOID == "no_id"
BLANKED == "blanked"

InitialSheet(name, kind) ==
    CASE kind = MISSING -> NoSheet
      [] kind = EMPTY -> Sheet(<<>>)
      [] kind = DRIFTED -> Sheet(LegacyRows[name])
      [] kind = WELLFORMED -> Sheet(<<SHEET_COLUMNS[name]>> \o SeedRows[name])
      [] kind = HEADERONLY -> Sheet(<<SHEET_COLUMNS[name]>>)
      [] kind = EDITED -> Sheet(<<SHEET_COLUMNS[name]>> \o EditedRows[name])
      [] kind = NOID -> Sheet(NoIdRows[name])
      [] kind = BLANKED ->
           Sheet(<<SHEET_COLUMNS[name]>> \o (IF name = FAQS THEN BlankedFaqRows ELSE <<>>))

\* The conditions the workbook is found in when the process starts.
InitialKinds ==
    {[n \in SheetNames |-> k] : k \in {MISSING, EMPTY, DRIFTED, WELLFORMED}}
    \cup {[n \in SheetNames |-> IF n = MENU THEN DRIFTED ELSE WELLFORMED],
          (MENU :> WELLFORMED) @@ (FAQS :> MISSING) @@ (ORDERS :> DRIFTED)
            @@ (RESERVATIONS :> EMPTY) @@ (CALLS :> WELLFORMED)}

\* The backend's answers to the (up to three) attempts of one append; during
\* start-up all appends succeed, or the appends for one worksheet get one of
\* the other answer sequences.
AppendOutcomes == [1..retries -> Outcomes]

EnsureOutcomes ==
    {[n \in SheetNames |-> IF n = f THEN o ELSE AllOk] : f \in SheetNames, o \in AppendOutcomes}

\* ------------------------------------------------------------------ state

\* workbook: the spreadsheet; phase: where the process is in its life;
\* nextId: identities drawn so far; clock: requests served so far; last: the
\* record of the last operation; retired: per table, the ids of the rows
\* delete requests removed; pending: the requests in flight between two of
\* their backend calls (none while requests are served one at a time).
VARIABLES workbook, phase, nextId, clock, last, retired, pending

vars == <<workbook, phase, nextId, clock, last, retired, pending>>

NoInput == [none |-> TRUE]

\* The record kept of the last operation: its inputs, its outcome, and the
\* workbook it started from (for the two start-up steps: the workbook the
\* start-up sequence began with).
Done(op, sheet, id, input, outs, status, attempts, raised, writes, body, newId, prev) ==
    [op |-> op, sheet |-> sheet, id |-> id, input |-> input, outs |-> outs,
     status |-> status, attempts |-> attempts, raised |-> raised, writes |-> writes,
     body |-> body, newId |-> newId, prev |-> prev]

Init ==
    /\ \E kinds \in InitialKinds :
         workbook = [n \in SheetNames |-> InitialSheet(n, kinds[n])]
    /\ phase = "boot"
    /\ nextId = 0
    /\ clock = 0
    /\ last = Done("none", "", "", NoInput, AllOk, 0, 0, "none", 0, <<>>, "", workbook)
    /\ retired = [n \in SheetNames |-> {}]
    /\ pending = {}

\* Line 141: ensure_sheets_exist() at module load; an exception ends the process.
EnsureSheetsExist ==
    /\ phase = "boot"
    /\ \E outs \in EnsureOutcomes :
         LET r == ensure_sheets_exist(workbook, outs) IN
         /\ workbook' = r.wb
         /\ phase' = IF r.raised = "none" THEN "ensured" ELSE "crashed"
         /\ last' = Done("ensure_sheets_exist", "", "", NoInput, outs, 0, 0, r.raised,
                         r.writes, <<>>, "", workbook)
    /\ UNCHANGED <<nextId, clock, retired, pending>>

\* Line 142: fix_menu_items_structure() at module load.
FixMenuItemsStructure ==
    /\ phase = "ensured"
    /\ \E o \in AppendOutcomes :
         LET outs == [i \in 1..(1 + Len(workbook[MENU].rows)) |-> IF i = 1 THEN o ELSE AllOk]
             r == fix_menu_items_structure(workbook, outs, nextId, clock)
         IN
         /\ workbook' = r.wb
         /\ nextId' = nextId + r.used
         /\ phase' = IF r.raised = "none" THEN "serving" ELSE "crashed"
         /\ last' = Done("fix_menu_items_structure", MENU, "", NoInput, o, 0, 0, r.raised,
                         0, <<>>, "", last.prev)
    /\ UNCHANGED <<clock, retired, pending>>

\* ---------------------------------------------------------- API requests

\* Request bodies as they arrive, before the model classes validate them.
MenuItemInputs ==
    {[name |-> " Fries ", price |-> 9999, description |-> "salted", category |-> "Sides"],
     [name |-> "Soup", price |-> 0, description |-> "hot", category |-> "Starters"]}

FAQInputs ==
    {[question |-> "Delivery?", answer |-> " yes "],
     [question |-> " ", answer |-> "x"]}

GoodOrder ==
    [phone |-> "+1 415-555-2671", name |-> "Cy", items |-> <<"pizza", "cola">>,
     total |-> 1250, special_instructions |-> "hot", status |-> "New"]

OrderInputs ==
    {GoodOrder,
     [GoodOrder EXCEPT !.phone = "415-555-2671"],
     [GoodOrder EXCEPT !.items = <<>>],
     [GoodOrder EXCEPT !.total = -1]}

GoodReservation ==
    [phone |-> " +14155552671 ", name |-> "Cy", date |-> "2024-02-29", time |-> "23:59",
     party_size |-> 2, special_requests |-> "window", status |-> "Held"]

ReservationInputs ==
    {GoodReservation,
     [GoodReservation EXCEPT !.phone = "+1 555"],
     [GoodReservation EXCEPT !.date = "2024-13-01"],
     [GoodReservation EXCEPT !.time = "25:00"],
     [GoodReservation EXCEPT !.party_size = 0],
     [GoodReservation EXCEPT !.party_size = 21]}

\* Tool-call payloads: every argument set in the full shape, and one payload
\* of each incomplete shape.
Payloads(inputs, good) ==
    {[shape |-> FULL, arguments |-> a] : a \in inputs}
    \cup {[shape |-> sh, arguments |-> good] : sh \in PayloadShapes \ {FULL}}

\* The ids requests ask for: those in the table's first column, and one in no table.
ABSENT == "nope"

RequestIds(name) ==
    ({workbook[name].rows[i][1] : i \in 2..Len(workbook[name].rows)} \ {""}) \cup {ABSENT}

DataRows(wb, name) == IF wb[name].rows = <<>> THEN 0 ELSE Len(wb[name].rows) - 1

\* The data rows of a table that add_faq's pruning leaves in it.
RecordRows(wb, name) ==
    Cardinality({i \in 2..Len(wb[name].rows) : ~IsBlankRow(wb[name].rows[i])})

\* The handlers by what they do to a table.
RetriedCreates == {"add_menu_item", "add_faq", "handle_order"}

Creates == RetriedCreates \cup {"handle_reservation"}

Updates == {"update_menu_item", "update_faq", "update_order", "update_reservation"}

Deletes == {"delete_menu_item", "delete_faq", "delete_order", "delete_reservation"}

\* The part of the effect every request shares: the workbook and the record
\* of the request; an identity is drawn when the handler got to its append.
Serve(op, name, id, input, outs, r) ==
    /\ workbook' = r.wb
    /\ nextId' = IF r.newId # "" \/ r.attempts > 0 THEN nextId + 1 ELSE nextId
    /\ clock' = clock + 1
    /\ last' = Done(op, name, id, input, outs, r.status,
                    r.attempts, r.exc, r.writes, r.body, r.newId, workbook)
    /\ retired' = IF op \in Deletes /\ r.status = 200
                  THEN [retired EXCEPT ![name] = @ \cup {id}]
                  ELSE retired
    /\ UNCHANGED <<phase, pending>>

Serving == phase = "serving" /\ clock < MaxClock

\* The backend's answers a request can meet: they are drawn only when the
\* handler, given this request, gets to an append at all.
Answers(r) == IF r.attempts > 0 THEN AppendOutcomes ELSE {AllOk}

\* The same for an update or delete request: the read is answered whenever
\* the worksheet exists, the write only when the scan found a row.
ReadWrites(r) ==
    IF r.writes > 0 THEN ReadWriteOutcomes
    ELSE IF r.exc = WSNOTFOUND THEN {ReadWriteOk}
    ELSE {ReadWriteOk, <<APIERROR, OK>>}

GetMenuItems ==
    /\ Serving
    /\ Serve("get_menu_items", MENU, "", NoInput, <<>>, get_menu_items(workbook))

AddMenuItem ==
    /\ Serving /\ DataRows(workbook, MENU) < MaxRows
    /\ \E raw \in MenuItemInputs :
         LET item == MenuItem(raw) IN
         \E outs \in Answers(IF item.ok
                              THEN add_menu_item(workbook, item.value, AllOk, "", clock)
                              ELSE Rejected(workbook)) :
         Serve("add_menu_item", MENU, "", raw, outs,
               IF item.ok
               THEN add_menu_item(workbook, item.value, outs, Uuid(nextId + 1), clock + 1)
               ELSE Rejected(workbook))

UpdateMenuItem ==
    /\ Serving
    /\ \E id \in RequestIds(MENU), raw \in MenuItemInputs :
         LET item == MenuItem(raw) IN
         \E outs \in (IF item.ok
                       THEN ReadWrites(update_menu_item(workbook, id, item.value, clock, ReadWriteOk))
                       ELSE {ReadWriteOk}) :
         Serve("update_menu_item", MENU, id, raw, outs,
               IF item.ok THEN update_menu_item(workbook, id, item.value, clock + 1, outs)
               ELSE Rejected(workbook))

DeleteMenuItem ==
    /\ Serving
    /\ \E id \in RequestIds(MENU) :
         \E outs \in ReadWrites(delete_menu_item(workbook, id, ReadWriteOk)) :
         Serve("delete_menu_item", MENU, id, NoInput, outs,
               delete_menu_item(workbook, id, outs))

GetFaqs ==
    /\ Serving
    /\ Serve("get_faqs", FAQS, "", NoInput, <<>>, get_faqs(workbook))

AddFaq ==
    /\ Serving /\ RecordRows(workbook, FAQS) < MaxRows
    /\ \E raw \in FAQInputs :
         LET faq == FAQ(raw) IN
         \E outs \in Answers(IF faq.ok THEN add_faq(workbook, faq.value, AllOk, "", clock)
                              ELSE Rejected(workbook)) :
         Serve("add_faq", FAQS, "", raw, outs,
               IF faq.ok THEN add_faq(workbook, faq.value, outs, Uuid(nextId + 1), clock + 1)
               ELSE Rejected(workbook))

UpdateFaq ==
    /\ Serving
    /\ \E id \in RequestIds(FAQS), raw \in FAQInputs :
         LET faq == FAQ(raw) IN
         \E outs \in (IF faq.ok
                       THEN ReadWrites(update_faq(workbook, id, faq.value, clock, ReadWriteOk))
                       ELSE {ReadWriteOk}) :
         Serve("update_faq", FAQS, id, raw, outs,
               IF faq.ok THEN update_faq(workbook, id, faq.value, clock + 1, outs)
               ELSE Rejected(workbook))

DeleteFaq ==
    /\ Serving
    /\ \E id \in RequestIds(FAQS) :
         \E outs \in ReadWrites(delete_faq(workbook, id, ReadWriteOk)) :
         Serve("delete_faq", FAQS, id, NoInput, outs, delete_faq(workbook, id, outs))

GetOrders ==
    /\ Serving
    /\ \E outs \in Answers(get_orders(workbook, AllOk)) :
         Serve("get_orders", ORDERS, "", NoInput, outs, get_orders(workbook, outs))

HandleOrder ==
    /\ Serving /\ DataRows(workbook, ORDERS) < MaxRows
    /\ \E payload \in Payloads(OrderInputs, GoodOrder) :
         \E outs \in Answers(handle_order(workbook, payload, AllOk, "", clock)) :
         Serve("handle_order", ORDERS, "", payload, outs,
               handle_order(workbook, payload, outs, Uuid(nextId + 1), clock + 1))

UpdateOrder ==
    /\ Serving
    /\ \E id \in RequestIds(ORDERS), raw \in OrderInputs :
         LET order == Order(raw) IN
         \E outs \in (IF order.ok
                       THEN ReadWrites(update_order(workbook, id, order.value, clock, ReadWriteOk))
                       ELSE {ReadWriteOk}) :
         Serve("update_order", ORDERS, id, raw, outs,
               IF order.ok THEN update_order(workbook, id, order.value, clock + 1, outs)
               ELSE Rejected(workbook))

DeleteOrder ==
    /\ Serving
    /\ \E id \in RequestIds(ORDERS) :
         \E outs \in ReadWrites(delete_order(workbook, id, ReadWriteOk)) :
         Serve("delete_order", ORDERS, id, NoInput, outs, delete_order(workbook, id, outs))

GetReservations ==
    /\ Serving
    /\ \E outs \in Answers(get_reservations(workbook, AllOk)) :
         Serve("get_reservations", RESERVATIONS, "", NoInput, outs,
               get_reservations(workbook, outs))

HandleReservation ==
    /\ Serving /\ DataRows(workbook, RESERVATIONS) < MaxRows
    /\ \E payload \in Payloads(ReservationInputs, GoodReservation) :
         \E outs \in Answers(handle_reservation(workbook, payload, AllOk, "", clock)) :
         Serve("handle_reservation", RESERVATIONS, "", payload, outs,
               handle_reservation(workbook, payload, outs, Uuid(nextId + 1), clock + 1))

UpdateReservation ==
    /\ Serving
    /\ \E id \in RequestIds(RESERVATIONS), raw \in ReservationInputs :
         LET res == Reservation(raw) IN
         \E outs \in (IF res.ok
                       THEN ReadWrites(update_reservation(workbook, id, res.value, clock,
                                                          ReadWriteOk))
                       ELSE {ReadWriteOk}) :
         Serve("update_reservation", RESERVATIONS, id, raw, outs,
               IF res.ok THEN update_reservation(workbook, id, res.value, clock + 1, outs)
               ELSE Rejected(workbook))

DeleteReservation ==
    /\ Serving
    /\ \E id \in RequestIds(RESERVATIONS) :
         \E outs \in ReadWrites(delete_reservation(workbook, id, ReadWriteOk)) :
         Serve("delete_reservation", RESERVATIONS, id, NoInput, outs,
               delete_reservation(workbook, id, outs))

\* The answers of the assistant provider, and of the backend to the call
\* log's append (accepted at once, after a retry, or refused).
Callers == {"+14155552671"}

PlainMarkup == "<Response><Dial/></Response>"
PaddedMarkup == " <Response><Dial/></Response> "

AssistantAnswers ==
    {AssistantAnswer(TRUE, 0, NOTJSON, ""),
     AssistantAnswer(FALSE, 500, TWIML, PlainMarkup),
     AssistantAnswer(FALSE, 200, NOTJSON, ""),
     AssistantAnswer(FALSE, 200, NODETAILS, ""),
     AssistantAnswer(FALSE, 201, NULLDETAILS, ""),
     AssistantAnswer(FALSE, 200, NOTWIML, ""),
     AssistantAnswer(FALSE, 200, TWIMLNOTTEXT, ""),
     AssistantAnswer(FALSE, 200, TWIML, ""),
     AssistantAnswer(FALSE, 201, TWIML, "  "),
     AssistantAnswer(FALSE, 200, TWIML, PaddedMarkup),
     AssistantAnswer(FALSE, 201, TWIML, PlainMarkup)}

CallLogOutcomes ==
    {AllOk, <<APIERROR, OK, OK>>, <<APIERROR, APIERROR, APIERROR>>, <<OTHERERROR, OK, OK>>}

InboundCall ==
    /\ Serving /\ DataRows(workbook, CALLS) < MaxRows
    /\ \E caller \in Callers, read \in {OK, APIERROR}, resp \in AssistantAnswers :
         \E outs \in (IF inbound_call(workbook, caller, read, resp, AllOk, "", clock).attempts > 0
                       THEN CallLogOutcomes ELSE {AllOk}) :
         Serve("inbound_call", CALLS, "", [read |-> read, resp |-> resp], outs,
               inbound_call(workbook, caller, read, resp, outs, Uuid(nextId + 1), clock + 1))

Next ==
    \/ EnsureSheetsExist
    \/ FixMenuItemsStructure
    \/ GetMenuItems \/ AddMenuItem \/ UpdateMenuItem \/ DeleteMenuItem
    \/ GetFaqs \/ AddFaq \/ UpdateFaq \/ DeleteFaq
    \/ GetOrders \/ HandleOrder \/ UpdateOrder \/ DeleteOrder
    \/ GetReservations \/ HandleReservation \/ UpdateReservation \/ DeleteReservation
    \/ InboundCall

Spec == Init /\ [][Next]_vars

\* ------------------------------------- tables mutated out of band

\* The start-up guarantee holds until an external actor mutates a table:
\* the process is serving and finds the workbook emptied, with drifted
\* headers, with headers that lack the id column, with headers only, or
\* with hand-edited rows.
OutOfBandKinds ==
    {[n \in SheetNames |-> k] : k \in {EMPTY, DRIFTED, NOID, HEADERONLY, EDITED, BLANKED}}

OutOfBandInit ==
    /\ \E kinds \in OutOfBandKinds :
         workbook = [n \in SheetNames |-> InitialSheet(n, kinds[n])]
    /\ phase = "serving"
    /\ nextId = 0
    /\ clock = 0
    /\ last = Done("none", "", "", NoInput, AllOk, 0, 0, "none", 0, <<>>, "", workbook)
    /\ retired = [n \in SheetNames |-> {}]
    /\ pending = {}

Requests ==
    \/ GetMenuItems \/ AddMenuItem \/ UpdateMenuItem \/ DeleteMenuItem
    \/ GetFaqs \/ AddFaq \/ UpdateFaq \/ DeleteFaq
    \/ GetOrders \/ HandleOrder \/ UpdateOrder \/ DeleteOrder
    \/ GetReservations \/ HandleReservation \/ UpdateReservation \/ DeleteReservation
    \/ InboundCall

OutOfBandSpec == OutOfBandInit /\ [][Requests]_vars

\* ------------------------------------------------ concurrent requests

\* The handlers are plain `def` functions, which the server runs on worker
\* threads: requests overlap, and each backend call of a handler is one step.
\* A request in flight is recorded with what its handler holds in local
\* variables: the row it built, the values it read (all_values), the index
\* its scan located (idx), the blank rows its read found (empty_rows).
InFlight(n, op, sheet, id, row, all_values, idx, empty_rows) ==
    [n |-> n, op |-> op, sheet |-> sheet, id |-> id, row |-> row,
     all_values |-> all_values, idx |-> idx, empty_rows |-> empty_rows]

\* One valid request body per table.
ValidMenuItem == MenuItem(CHOOSE raw \in MenuItemInputs : MenuItem(raw).ok).value
ValidFaq == FAQ(CHOOSE raw \in FAQInputs : FAQ(raw).ok).value
ValidOrder == Order(GoodOrder).value
ValidReservation == Reservation(GoodReservation).value

\* The row a create request appends, and the row an update request writes.
CreateRowOf(name, id, now) ==
    CASE name = MENU -> MenuRow(id, ValidMenuItem, now)
      [] name = FAQS -> FaqRow(id, ValidFaq, now)
      [] name = ORDERS -> OrderRow(id, ValidOrder, now)
      [] name = RESERVATIONS -> ReservationCreateRow(id, ValidReservation, now)

UpdateRowOf(name, id, now) ==
    CASE name = MENU -> MenuRow(id, ValidMenuItem, now)
      [] name = FAQS -> FaqRow(id, ValidFaq, now)
      [] name = ORDERS -> OrderUpdateRow(id, ValidOrder, now)
      [] name = RESERVATIONS -> ReservationUpdateRow(id, ValidReservation, now)

\* The scan of the table's delete handler.
DeleteLocate(wb, name, id) ==
    IF name = FAQS THEN LocateFirstCell(wb, id, OK)
    ELSE Locate(wb, name, id, name \in {MENU, RESERVATIONS}, OK)

\* The row index the write of an update or delete is addressed to: the loop
\* variable idx of the scan, whatever the table holds by now.
WriteIndex_rescan(req, rows) == FindRowIndexById(GetAllValues(rows), 1, req.id)

WriteIndex(req, rows) == req.idx

\* The answers of the backend to the append of a request in flight.
ConcurrentAppendOutcomes == {AllOk, <<APIERROR, OK, OK>>, <<OTHERERROR, OK, OK>>}

\* The record of a step: the request, the table as the step found it, the
\* rows successful creates appended so far (in order), and whether an update
\* or delete has written; last.prev is the workbook the requests started on.
Stepped(op, req, created, disturbed, status, raised) ==
    Done(op, req.sheet, req.id,
         [req |-> req, before |-> workbook[req.sheet].rows, created |-> created,
          disturbed |-> disturbed],
         <<>>, status, 0, raised, 0, <<>>, "", last.prev)

ConcurrentInit ==
    /\ \E k \in {WELLFORMED, EDITED, BLANKED} :
         workbook = [n \in SheetNames |-> InitialSheet(n, k)]
    /\ phase = "serving"
    /\ nextId = 0
    /\ clock = 0
    /\ last = Done("none", "", "", [req |-> NoInput, before |-> <<>>, created |-> <<>>,
                                    disturbed |-> FALSE],
                   <<>>, 0, 0, "none", 0, <<>>, "", workbook)
    /\ retired = [n \in SheetNames |-> {}]
    /\ pending = {}

\* A request arrives while fewer than MaxClock have arrived.
Arriving == phase = "serving" /\ clock < MaxClock

\* A requested id that is the text of the header's id cell.
HeaderId == "id"

\* update_*: worksheet lookup, get_all_values and the scan (one backend read).
ScanForUpdate ==
    /\ Arriving
    /\ \E name \in Tables : \E id \in RequestIds(name) \cup {HeaderId} :
         LET l == Locate(workbook, name, id, FALSE, OK)
             req == InFlight(clock + 1, "update", name, id, UpdateRowOf(name, id, clock + 1),
                             GetAllValues(workbook[name].rows), l.idx, {})
         IN
         /\ pending' = IF l.exc = NOEXC THEN pending \cup {req} ELSE pending
         /\ last' = Stepped("scan_update", req, last.input.created, last.input.disturbed,
                            crud_status(l.exc), l.exc)
    /\ clock' = clock + 1
    /\ UNCHANGED <<workbook, phase, nextId, retired>>

\* update_*: ws.update at the located index.
WriteUpdate ==
    /\ \E req \in pending :
         /\ req.op = "update"
         /\ workbook' = [workbook EXCEPT ![req.sheet].rows =
                            UpdateRow(@, WriteIndex(req, @), req.row)]
         /\ pending' = pending \ {req}
         /\ last' = Stepped("write_update", req, last.input.created, TRUE, 200, NOEXC)
    /\ UNCHANGED <<phase, nextId, clock, retired>>

\* delete_*: worksheet lookup, get_all_values and the scan.
ScanForDelete ==
    /\ Arriving
    /\ \E name \in Tables : \E id \in RequestIds(name) \cup {HeaderId} :
         LET l == DeleteLocate(workbook, name, id)
             req == InFlight(clock + 1, "delete", name, id, <<>>,
                             GetAllValues(workbook[name].rows), l.idx, {})
         IN
         /\ pending' = IF l.exc = NOEXC THEN pending \cup {req} ELSE pending
         /\ last' = Stepped("scan_delete", req, last.input.created, last.input.disturbed,
                            crud_status(l.exc), l.exc)
    /\ clock' = clock + 1
    /\ UNCHANGED <<workbook, phase, nextId, retired>>

\* delete_*: ws.delete_rows at the located index.
WriteDelete ==
    /\ \E req \in pending :
         /\ req.op = "delete"
         /\ workbook' = [workbook EXCEPT ![req.sheet].rows =
                            DeleteRows(@, WriteIndex(req, @))]
         /\ pending' = pending \ {req}
         /\ last' = Stepped("write_delete", req, last.input.created, TRUE, 200, NOEXC)
    /\ UNCHANGED <<phase, nextId, clock, retired>>

\* add_menu_item, handle_order, handle_reservation: the row is built.
BeginCreate ==
    /\ Arriving
    /\ \E name \in Tables \ {FAQS} :
         LET req == InFlight(clock + 1, "create", name, Uuid(nextId + 1),
                             CreateRowOf(name, Uuid(nextId + 1), clock + 1), <<>>, 0, {})
         IN
         /\ DataRows(workbook, name) < MaxRows + 1
         /\ pending' = pending \cup {req}
         /\ last' = Stepped("begin_create", req, last.input.created, last.input.disturbed,
                            0, NOEXC)
    /\ clock' = clock + 1
    /\ nextId' = nextId + 1
    /\ UNCHANGED <<workbook, phase, retired>>

\* add_faq: get_all_values, the indices of the blank rows, and the row.
AddFaqRead ==
    /\ Arriving
    /\ LET all_values == GetAllValues(workbook[FAQS].rows)
           empty_rows == {i \in 2..Len(all_values) : IsBlankRow(all_values[i])}
           req == InFlight(clock + 1, "add_faq", FAQS, Uuid(nextId + 1),
                           CreateRowOf(FAQS, Uuid(nextId + 1), clock + 1), all_values, 0,
                           empty_rows)
       IN
       /\ pending' = pending \cup {req}
       /\ last' = Stepped("add_faq_read", req, last.input.created, last.input.disturbed,
                          0, NOEXC)
    /\ clock' = clock + 1
    /\ nextId' = nextId + 1
    /\ UNCHANGED <<workbook, phase, retired>>

\* add_faq: one ws.delete_rows(ridx) of its loop over sorted(empty_rows, reverse=True).
AddFaqPrune ==
    /\ \E req \in pending :
         /\ req.op = "add_faq" /\ req.empty_rows # {}
         /\ LET ridx == CHOOSE i \in req.empty_rows : \A j \in req.empty_rows : j <= i
                rest == [req EXCEPT !.empty_rows = @ \ {ridx}]
            IN
            /\ workbook' = [workbook EXCEPT ![FAQS].rows = DeleteRows(@, ridx)]
            /\ pending' = (pending \ {req}) \cup {rest}
            /\ last' = Stepped("add_faq_prune", req, last.input.created,
                               last.input.disturbed, 0, NOEXC)
    /\ UNCHANGED <<phase, nextId, clock, retired>>

\* The append of a create request: safe_append_row, or the bare append_row
\* of handle_reservation.
AppendRowStep ==
    /\ \E req \in pending : \E outs \in ConcurrentAppendOutcomes :
         /\ req.op \in {"create", "add_faq"} /\ req.empty_rows = {}
         /\ LET r == IF req.sheet = RESERVATIONS
                     THEN append_row_once(workbook[req.sheet].rows, req.row, outs)
                     ELSE safe_append_row(workbook[req.sheet].rows, req.row, outs)
            IN
            /\ workbook' = [workbook EXCEPT ![req.sheet].rows = r.rows]
            /\ pending' = pending \ {req}
            /\ last' = Stepped("append", req,
                               IF r.raised = NOEXC
                               THEN Append(last.input.created, <<req.sheet, req.row>>)
                               ELSE last.input.created,
                               last.input.disturbed,
                               IF req.sheet \in {ORDERS, RESERVATIONS}
                               THEN tool_status(r.raised) ELSE crud_status(r.raised),
                               r.raised)
    /\ UNCHANGED <<phase, nextId, clock, retired>>

ConcurrentNext ==
    \/ ScanForUpdate \/ WriteUpdate
    \/ ScanForDelete \/ WriteDelete
    \/ BeginCreate \/ AddFaqRead \/ AddFaqPrune \/ AppendRowStep

ConcurrentSpec == ConcurrentInit /\ [][ConcurrentNext]_vars

\* ------------------------------------- listings that heal, concurrently

\* get_orders and get_reservations are plain `def` functions too.  When the
\* first row they read is not the expected header they make three backend
\* calls one after another: ws.clear(), the append of the header, and the
\* formatting of row 1; other requests run in between.

\* The answers of the backend to the header's append: accepted at once, or
\* on the retry.
HealAppendOutcomes == {AllOk, <<APIERROR, OK, OK>>}

\* One of the two tables is found with a drifted header, the others as the
\* handlers write them.
HealingInit ==
    /\ \E t \in {ORDERS, RESERVATIONS} :
         workbook = [n \in SheetNames |->
                        InitialSheet(n, IF n = t THEN DRIFTED ELSE WELLFORMED)]
    /\ phase = "serving"
    /\ nextId = 0
    /\ clock = 0
    /\ last = Done("none", "", "", [req |-> NoInput, before |-> <<>>, created |-> <<>>,
                                    disturbed |-> FALSE],
                   <<>>, 0, 0, "none", 0, <<>>, "", workbook)
    /\ retired = [n \in SheetNames |-> {}]
    /\ pending = {}

\* get_orders, get_reservations: get_all_values and the header comparison;
\* with the expected header the listing is answered at once.
ListRead ==
    /\ Arriving
    /\ \E name \in {ORDERS, RESERVATIONS} :
         LET values == GetAllValues(workbook[name].rows)
             drifted == values = <<>> \/ values[1] # SHEET_COLUMNS[name]
             req == InFlight(clock + 1, IF drifted THEN "heal_clear" ELSE "list", name, "",
                             SHEET_COLUMNS[name], values, 0, {})
         IN
         /\ pending' = IF drifted THEN pending \cup {req} ELSE pending
         /\ last' = Stepped("list_read", req, last.input.created, last.input.disturbed,
                            IF drifted THEN 0 ELSE 200, NOEXC)
    /\ clock' = clock + 1
    /\ UNCHANGED <<workbook, phase, nextId, retired>>

\* ws.clear()
HealClear ==
    /\ \E req \in pending :
         /\ req.op = "heal_clear"
         /\ workbook' = [workbook EXCEPT ![req.sheet].rows = <<>>]
         /\ pending' = (pending \ {req}) \cup {[req EXCEPT !.op = "heal_append"]}
         /\ last' = Stepped("heal_clear", req, last.input.created, TRUE, 0, NOEXC)
    /\ UNCHANGED <<phase, nextId, clock, retired>>

\* safe_append_row(ws, expected_headers), then the listing [] is answered.
HealAppendHeader ==
    /\ \E req \in pending : \E outs \in HealAppendOutcomes :
         /\ req.op = "heal_append"
         /\ LET r == safe_append_row(workbook[req.sheet].rows, req.row, outs) IN
            /\ workbook' = [workbook EXCEPT ![req.sheet].rows = r.rows]
            /\ pending' = pending \ {req}
            /\ last' = Stepped("heal_append", req, last.input.created, TRUE,
                               crud_status(r.raised), r.raised)
    /\ UNCHANGED <<phase, nextId, clock, retired>>

HealingNext ==
    \/ ListRead \/ HealClear \/ HealAppendHeader
    \/ BeginCreate \/ AppendRowStep

HealingSpec == HealingInit /\ [][HealingNext]_vars

\* ------------------------------------------------------------ properties

RowsOf(wb, name) == wb[name].rows

\* The last request is `op` and its handler ran to the given status.
Did(ops, status) == last.op \in ops /\ last.status = status

\* What GET on the table answers for workbook wb.
ListingOf(wb, name) ==
    CASE name = MENU -> get_menu_items(wb).body
      [] name = FAQS -> get_faqs(wb).body
      [] name = ORDERS -> get_orders(wb, AllOk).body
      [] name = RESERVATIONS -> get_reservations(wb, AllOk).body

\* The request body of the last request after the model class normalised it.
Validated ==
    CASE last.op \in {"add_menu_item", "update_menu_item"} -> MenuItem(last.input).value
      [] last.op \in {"add_faq", "update_faq"} -> FAQ(last.input).value
      [] last.op = "update_order" -> Order(last.input).value
      [] last.op = "update_reservation" -> Reservation(last.input).value
      [] last.op = "handle_order" -> Order(last.input.arguments).value
      [] last.op = "handle_reservation" -> Reservation(last.input.arguments).value

\* The fields a request supplies, by column name, as a listing shows them.
Supplied(name, v) ==
    CASE name = MENU ->
           ("name" :> v.name) @@ ("price" :> ToString(v.price))
           @@ ("description" :> v.description) @@ ("category" :> v.category)
      [] name = FAQS -> ("question" :> v.question) @@ ("answer" :> v.answer)
      [] name = ORDERS ->
           ("phone" :> v.phone) @@ ("name" :> v.name) @@ ("items" :> v.items)
           @@ ("total" :> ToString(v.total))
           @@ ("special_instructions" :> v.special_instructions) @@ ("status" :> v.status)
      [] name = RESERVATIONS ->
           ("phone" :> v.phone) @@ ("name" :> v.name) @@ ("date" :> v.date)
           @@ ("time" :> v.time) @@ ("party_size" :> ToString(v.party_size))
           @@ ("special_requests" :> v.special_requests)

Carries(record, fields) ==
    \A k \in DOMAIN fields : k \in DOMAIN record /\ record[k] = fields[k]

\* The number of the first attempt whose answer is not a transient error, or
\* `retries` when all of them are.
FirstSettled(outs) ==
    IF \E k \in 1..retries : outs[k] # APIERROR
    THEN CHOOSE k \in 1..retries : outs[k] # APIERROR /\ \A j \in 1..(k - 1) : outs[j] = APIERROR
    ELSE retries

\* C1: the append retry policy makes at most 3 attempts for one row; it stops
\* at the first successful attempt (the row is then the table's new last
\* row, added once), makes another attempt only after an APIError while
\* fewer than 3 attempts were made, raises the APIError when the third
\* attempt fails too, and raises any other error on the attempt where it
\* occurs, the table then being as it was.
C1_AppendRetryPolicy ==
    (last.op \in RetriedCreates /\ last.attempts > 0) =>
        LET n == FirstSettled(last.outs)
            before == RowsOf(last.prev, last.sheet)
            after == RowsOf(workbook, last.sheet)
        IN
        /\ last.attempts = n
        /\ last.attempts <= 3
        /\ last.outs[n] = OK =>
             /\ last.raised = NOEXC
             /\ Len(after) = Len(before) + 1
             /\ SubSeq(after, 1, Len(before)) = before
             /\ after[Len(after)][1] = last.newId
        /\ last.outs[n] # OK =>
             /\ last.raised = last.outs[n]
             /\ after = before

\* A row was appended on the third attempt, after two transient errors.
C1_Witness ==
    /\ last.op = "add_menu_item"
    /\ last.outs = <<APIERROR, APIERROR, OK>>
    /\ last.attempts = 3
    /\ last.status = 200

\* C2: every record-creating operation masks transient append failures: when
\* the first attempt fails with a transient error and a later attempt within
\* the budget of 3 would succeed, the record is stored exactly once and the
\* caller gets a success outcome; with transient failures only, a server
\* error is returned only after all 3 attempts.
C2_CreatesMaskTransientErrors ==
    (last.op \in Creates /\ last.attempts > 0 /\ last.outs[1] = APIERROR) =>
        LET before == RowsOf(last.prev, last.sheet)
            after == RowsOf(workbook, last.sheet)
        IN
        /\ (last.outs[2] = OK \/ (last.outs[2] = APIERROR /\ last.outs[3] = OK)) =>
             /\ last.status = 200
             /\ Len(after) = Len(before) + 1
             /\ after[Len(after)][1] = last.newId
        /\ (last.status = 500 /\ \A k \in 1..last.attempts : last.outs[k] = APIERROR) =>
             last.attempts = 3

\* C3: a successful create on a well-formed table, followed directly by a
\* listing of that table, returns a record carrying the new id in which every
\* column maps to the value supplied for that field.
C3_CreateThenListRoundTrip ==
    (Did(Creates, 200) /\ RowValues1(RowsOf(last.prev, last.sheet)) = SHEET_COLUMNS[last.sheet]) =>
        LET listing == ListingOf(workbook, last.sheet) IN
        \E i \in 1..Len(listing) :
            /\ Get(listing[i], "id", "") = last.newId
            /\ Carries(listing[i], Supplied(last.sheet, Validated))

\* The ids in the table's id column before the last request.
IdsBefore ==
    LET vals == GetAllValues(RowsOf(last.prev, last.sheet)) IN
    {vals[i][1] : i \in 2..Len(vals)}

\* C4: update-by-id or delete-by-id with an id that matches no row ends in a
\* client error (404), not a server error, and leaves the table unchanged.
C4_MissingIdIsNotFound404 ==
    (last.op \in Updates \cup Deletes /\ last.status # UNPROCESSABLE
       /\ last.id \notin IdsBefore) =>
        /\ last.status = 404
        /\ workbook = last.prev

\* The row index (2 or more) of the first row carrying last.id before the request.
RowBefore ==
    LET vals == GetAllValues(RowsOf(last.prev, last.sheet)) IN
    CHOOSE i \in 2..Len(vals) : vals[i][1] = last.id /\ \A j \in 2..(i - 1) : vals[j][1] # last.id

\* C5: after a successful update-by-id of an existing id, a listing of the
\* table returns the new field values under that id, the id cell of the row
\* is what it was, the number of rows is unchanged, every other row has
\* exactly the values it had before, and no other table has changed.
C5_UpdateThenList ==
    Did(Updates, 200) =>
        LET before == RowsOf(last.prev, last.sheet)
            after == RowsOf(workbook, last.sheet)
            listing == ListingOf(workbook, last.sheet)
        IN
        /\ last.id \in IdsBefore
        /\ Len(after) = Len(before)
        /\ after[RowBefore][1] = before[RowBefore][1]
        /\ \A i \in 1..Len(before) : i # RowBefore => after[i] = before[i]
        /\ \A n \in SheetNames \ {last.sheet} : workbook[n] = last.prev[n]
        /\ Len(listing) = Len(before) - 1
        /\ Get(listing[RowBefore - 1], "id", "") = last.id
        /\ Carries(listing[RowBefore - 1], Supplied(last.sheet, Validated))

\* A reservation that is not the table's first row was updated while the table
\* held other rows.
C5_Witness ==
    /\ Did({"update_reservation"}, 200)
    /\ Len(RowsOf(workbook, RESERVATIONS)) >= 3
    /\ RowBefore > 2
    /\ RowsOf(workbook, RESERVATIONS) # RowsOf(last.prev, RESERVATIONS)

\* The exception a second request for the same id ends its try block with.
SecondLookup(wb, op, id) ==
    CASE op = "delete_menu_item" ->
           {delete_menu_item(wb, id, ReadWriteOk).exc}
           \cup {update_menu_item(wb, id, MenuItem(raw).value, clock + 1, ReadWriteOk).exc :
                   raw \in {r \in MenuItemInputs : MenuItem(r).ok}}
      [] op = "delete_faq" ->
           {delete_faq(wb, id, ReadWriteOk).exc}
           \cup {update_faq(wb, id, FAQ(raw).value, clock + 1, ReadWriteOk).exc :
                   raw \in {r \in FAQInputs : FAQ(r).ok}}
      [] op = "delete_order" ->
           {delete_order(wb, id, ReadWriteOk).exc}
           \cup {update_order(wb, id, Order(raw).value, clock + 1, ReadWriteOk).exc :
                   raw \in {r \in OrderInputs : Order(r).ok}}
      [] op = "delete_reservation" ->
           {delete_reservation(wb, id, ReadWriteOk).exc}
           \cup {update_reservation(wb, id, Reservation(raw).value, clock + 1,
                                      ReadWriteOk).exc :
                   raw \in {r \in ReservationInputs : Reservation(r).ok}}

\* C6: after a successful delete-by-id of an id that occurs once in the
\* table, a second lookup, update or delete of that id finds no row
\* (NotFound), the table has exactly one row fewer, and every other row is
\* still there with its values, in the same relative order.
C6_DeleteThenNotFound ==
    (Did(Deletes, 200)
       /\ Cardinality({i \in 2..Len(RowsOf(last.prev, last.sheet)) :
                         RowsOf(last.prev, last.sheet)[i][1] = last.id}) = 1) =>
        LET before == RowsOf(last.prev, last.sheet)
            after == RowsOf(workbook, last.sheet)
        IN
        /\ Len(after) = Len(before) - 1
        /\ \A i \in 1..Len(after) :
             after[i] = IF i < RowBefore THEN before[i] ELSE before[i + 1]
        /\ \A i \in 2..Len(after) : after[i][1] # last.id
        /\ SecondLookup(workbook, last.op, last.id) = {NOTFOUND}
        /\ \A n \in SheetNames \ {last.sheet} : workbook[n] = last.prev[n]

\* A row with rows before and after it was deleted.
C6_Witness ==
    /\ Did(Deletes, 200)
    /\ Len(RowsOf(last.prev, last.sheet)) >= 4
    /\ RowBefore = 3

\* C7: after ensure_sheets_exist returns normally every table exists and its
\* row 1 equals the expected column list exactly; calling it again on that
\* result makes no clear and no write and leaves every table (header and data
\* rows) unchanged, whatever the backend would answer.
C7_EnsureSheetsIdempotent ==
    (last.op = "ensure_sheets_exist" /\ phase = "ensured") =>
        /\ \A n \in SheetNames :
             /\ workbook[n].exists
             /\ Len(workbook[n].rows) >= 1
             /\ workbook[n].rows[1] = SHEET_COLUMNS[n]
             /\ (last.prev[n].exists
                   /\ RowValues1(last.prev[n].rows) = SHEET_COLUMNS[n]) =>
                  workbook[n] = last.prev[n]
        /\ \A outs \in EnsureOutcomes :
             LET again == ensure_sheets_exist(workbook, outs) IN
             /\ again.raised = "none"
             /\ again.writes = 0
             /\ again.wb = workbook

\* ensure_sheets_exist returned normally on a workbook with a missing table,
\* an empty one, a drifted one and well-formed ones holding data rows.
C7_Witness ==
    /\ last.op = "ensure_sheets_exist" /\ phase = "ensured"
    /\ ~last.prev[FAQS].exists
    /\ last.prev[RESERVATIONS].rows = <<>>
    /\ last.prev[ORDERS].rows = LegacyRows[ORDERS]
    /\ Len(workbook[MENU].rows) = 3
    /\ last.writes > 0

\* The data rows of the Menu Items table when the start-up sequence began.
LegacyMenu == GetAllRecords(RowsOf(last.prev, MENU))

\* C8: when the Menu Items table exists with a drifted header and N data rows
\* at process start, then after the start-up sequence it has the canonical
\* header and N data rows, one per original record, each carrying the
\* original name, price, description and category (defaulted when absent)
\* under a fresh id.
C8_MenuItemsMigratedAtStartup ==
    (last.op = "fix_menu_items_structure" /\ phase = "serving"
       /\ last.prev[MENU].exists /\ last.prev[MENU].rows # <<>>
       /\ RowValues1(last.prev[MENU].rows) # SHEET_COLUMNS[MENU]) =>
        LET rows == RowsOf(workbook, MENU) IN
        /\ rows[1] = SHEET_COLUMNS[MENU]
        /\ Len(rows) = 1 + Len(LegacyMenu)
        /\ \A i \in 1..Len(LegacyMenu) :
             /\ rows[i + 1][1] # ""
             /\ rows[i + 1][2] = Get(LegacyMenu[i], "name", "")
             /\ rows[i + 1][3] = Get(LegacyMenu[i], "price", "0")
             /\ rows[i + 1][4] = Get(LegacyMenu[i], "description", "")
             /\ rows[i + 1][5] = Get(LegacyMenu[i], "category", "")

\* The texts among the request bodies that are no valid phone number.
InvalidPhones == {"415-555-2671", "+1 555"}

\* The arguments of a tool-call create request break a creation constraint.
FailsValidation(op, a) ==
    \/ a.phone \in InvalidPhones
    \/ op = "handle_order" /\ (a.items = <<>> \/ a.total < 0)
    \/ op = "handle_reservation"
         /\ (a.date = "2024-13-01" \/ a.time = "25:00" \/ a.party_size < 1 \/ a.party_size > 20)

\* C9: a create request whose input fails validation (invalid phone number,
\* empty item list, negative total, date or time not in the fixed format,
\* party size outside 1..20) is rejected with a client error (4xx), never a
\* server error, and no backend write is made: the workbook is as before.
C9_InvalidCreateRejected ==
    (last.op \in {"handle_order", "handle_reservation"} /\ last.input.shape = FULL
       /\ FailsValidation(last.op, last.input.arguments)) =>
        /\ last.status \in 400..499
        /\ last.writes = 0
        /\ last.attempts = 0
        /\ workbook = last.prev

\* An order with a negative total was sent while the Orders table held rows.
C9_Witness ==
    /\ last.op = "handle_order" /\ last.input.shape = FULL
    /\ last.input.arguments.total < 0
    /\ last.status = 400
    /\ Len(RowsOf(workbook, ORDERS)) >= 2

\* C10: updates enforce the same field constraints as creation: the row a
\* successful update-by-id stores has, for a Reservation, a party_size in
\* 1..20 and a date and time that parse against YYYY-MM-DD and HH:MM, and for
\* an Order a total >= 0.
C10_UpdatesKeepConstraints ==
    /\ Did({"update_reservation"}, 200) =>
         LET rec == GetAllRecords(RowsOf(workbook, RESERVATIONS))[RowBefore - 1] IN
         /\ rec["party_size"] \in {ToString(n) : n \in 1..20}
         /\ ParsesAsDate(rec["date"])
         /\ ParsesAsTime(rec["time"])
    /\ Did({"update_order"}, 200) =>
         LET rec == GetAllRecords(RowsOf(workbook, ORDERS))[RowBefore - 1] IN
         rec["total"] \in {ToString(n) : n \in 0..2000}

\* The fields a request supplies, by column name, as the cells hold them.
SuppliedCells(name, v) ==
    [k \in DOMAIN Supplied(name, v) |->
        IF k = "items" THEN JsonDumps(v.items) ELSE Supplied(name, v)[k]]

\* The cell of a row under column k of the table's canonical header; a
\* missing trailing cell reads as the empty text.
AtColumn(row, name, k) ==
    LET j == IndexOf(SHEET_COLUMNS[name], k) IN
    IF j \in 1..Len(row) THEN row[j] ELSE ""

\* The row the last create (the new last row) or update wrote.
WrittenRow ==
    LET after == RowsOf(workbook, last.sheet) IN
    IF last.op \in Creates THEN after[Len(after)] ELSE after[RowBefore]

\* C11: in every state the API's create and update operations reach on
\* well-formed tables, every data row of a table has exactly as many cells as
\* the table's canonical header, and a successful create or update has
\* written each field at the position of its column in the header.
C11_RowsMatchHeader ==
    phase = "serving" =>
        /\ \A n \in Tables :
             LET rows == RowsOf(workbook, n) IN
             (rows # <<>> /\ rows[1] = SHEET_COLUMNS[n]) =>
                 \A i \in 2..Len(rows) : Len(rows[i]) = Len(SHEET_COLUMNS[n])
        /\ (Did(Creates \cup Updates, 200)
              /\ RowValues1(RowsOf(last.prev, last.sheet)) = SHEET_COLUMNS[last.sheet]) =>
             LET cells == SuppliedCells(last.sheet, Validated) IN
             \A k \in DOMAIN cells : AtColumn(WrittenRow, last.sheet, k) = cells[k]

\* C15: an update-by-id or delete-by-id makes at most one backend write
\* attempt and no append attempt; when the read fails, or the one write
\* attempt fails, the caller gets a server error carrying that failure, the
\* table is as it was, and no second attempt was made.
C15_UpdateDeleteSingleAttempt ==
    (last.op \in Updates \cup Deletes /\ last.status # UNPROCESSABLE) =>
        /\ last.writes <= 1
        /\ last.attempts = 0
        /\ (last.prev[last.sheet].exists /\ last.outs[1] # OK) =>
             /\ last.status = 500 /\ last.raised = last.outs[1]
             /\ last.writes = 0 /\ workbook = last.prev
        /\ (last.writes = 1 /\ last.outs[2] # OK) =>
             /\ last.status = 500 /\ last.raised = last.outs[2]
             /\ workbook = last.prev
        /\ (last.writes = 1 /\ last.outs[2] = OK) => last.status = 200

\* The write of an update of an existing order was refused with a transient error.
C15_Witness ==
    /\ last.op = "update_order" /\ last.id = "s2"
    /\ last.outs = <<OK, APIERROR>>
    /\ last.status = 500 /\ last.writes = 1

\* The provider answered with a usable markup: a 200 or 201 whose JSON body
\* holds phoneCallProviderDetails.twiml, a text that is not blank.
UsableMarkup(resp) ==
    /\ ~resp.raises
    /\ resp.status \in {200, 201}
    /\ resp.json = TWIML
    /\ Strip(resp.twiml) # ""

\* C17: the inbound-call webhook answers with call-control markup whatever
\* its steps do (the menu/FAQ read fails, the assistant call raises or gives
\* another status than 200/201, the body lacks the provider details or the
\* markup, the markup is blank, the call log cannot be written): the
\* provider's markup verbatim exactly when the status is 200/201 and the
\* markup is present and not blank, a fixed fallback markup otherwise.
C17_InboundCallAlwaysAnswers ==
    last.op = "inbound_call" =>
        /\ last.status = 200
        /\ UsableMarkup(last.input.resp) => last.body = last.input.resp.twiml
        /\ ~UsableMarkup(last.input.resp) => last.body \in Fallbacks

\* The provider's markup (with its surrounding blanks) was passed on although
\* the menu/FAQ read failed and the call log could not be written.
C17_Witness ==
    /\ last.op = "inbound_call"
    /\ last.input.read = APIERROR
    /\ last.outs = <<APIERROR, APIERROR, APIERROR>> /\ last.attempts = 3
    /\ last.body = PaddedMarkup
    /\ workbook = last.prev

\* C18: starting from tables with pairwise distinct ids, after any sequence
\* of API create, update-by-id and delete-by-id requests no two data rows of
\* a table carry the same id, and no row carries the id of a row that was
\* deleted.
C18_IdsUniqueNeverReused ==
    phase = "serving" =>
        \A n \in SheetNames :
            LET rows == RowsOf(workbook, n) IN
            /\ \A i, j \in 2..Len(rows) : i # j => rows[i][1] # rows[j][1]
            /\ \A i \in 2..Len(rows) : rows[i][1] \notin retired[n]

\* A record was created in a table a row had been deleted from.
C18_Witness ==
    /\ Did(Creates, 200)
    /\ retired[last.sheet] # {}
    /\ Len(RowsOf(workbook, last.sheet)) >= 3

\* The listing handlers.
Listings == {"get_menu_items", "get_faqs", "get_orders", "get_reservations"}

\* C14: listing a table that is empty or whose row 1 differs from the
\* expected column list returns an empty sequence without an error and leaves
\* the table with row 1 equal to the expected column list, for each of Menu
\* Items, FAQs, Orders and Reservations; listing a table that holds only the
\* header returns an empty sequence.  (The backend accepting every call.)
C14_ListingHealsDrift ==
    (last.op \in Listings /\ last.prev[last.sheet].exists
       /\ last.raised \notin {APIERROR, OTHERERROR}) =>
        LET before == GetAllValues(RowsOf(last.prev, last.sheet))
            after == RowsOf(workbook, last.sheet)
        IN
        /\ (before = <<>> \/ before[1] # SHEET_COLUMNS[last.sheet]) =>
             /\ last.status = 200
             /\ last.body = <<>>
             /\ after # <<>>
             /\ after[1] = SHEET_COLUMNS[last.sheet]
        /\ before = <<SHEET_COLUMNS[last.sheet]>> =>
             /\ last.status = 200
             /\ last.body = <<>>

\* C16: when the header row of a table has no "id" column, every
\* update-by-id and delete-by-id on it ends in a server error and leaves the
\* table unchanged: no row is overwritten or deleted by matching the
\* requested id against another column.
C16_NoIdColumnIsServerError ==
    (last.op \in Updates \cup Deletes /\ last.status # UNPROCESSABLE
       /\ RowsOf(last.prev, last.sheet) # <<>>
       /\ "id" \notin Range(RowsOf(last.prev, last.sheet)[1])) =>
        /\ last.status \in 500..599
        /\ workbook = last.prev

\* The list an items cell stands for: the decoded list when the cell is the
\* JSON text of a list, the empty list for every other cell.
ItemsOfCell(cell) ==
    IF \E l \in ItemLists : JsonDumps(l) = cell
    THEN CHOOSE l \in ItemLists : JsonDumps(l) = cell
    ELSE <<>>

\* C19: listing Orders does not fail because of one row's items cell: a row
\* whose items cell is no valid JSON, is empty or is no text is returned
\* with items = [] and its other fields as stored, and every other row of
\* the listing is returned with its decoded items.
C19_BadItemsCellDegrades ==
    (last.op = "get_orders" /\ last.raised \notin {APIERROR, OTHERERROR}
       /\ Len(RowsOf(last.prev, ORDERS)) > 1
       /\ RowsOf(last.prev, ORDERS)[1] = SHEET_COLUMNS[ORDERS]) =>
        LET rows == GetAllValues(RowsOf(last.prev, ORDERS)) IN
        /\ last.status = 200
        /\ workbook = last.prev
        /\ Len(last.body) = Len(rows) - 1
        /\ \A i \in 1..Len(last.body) :
             /\ last.body[i]["items"] = ItemsOfCell(AtColumn(rows[i + 1], ORDERS, "items"))
             /\ \A k \in Range(SHEET_COLUMNS[ORDERS]) \ {"items"} :
                  last.body[i][k] = AtColumn(rows[i + 1], ORDERS, k)

\* A listing returned a row with a malformed items cell, one with an empty
\* cell and one with a number, each with items = [], next to a row with its
\* decoded items.
C19_Witness ==
    /\ last.op = "get_orders" /\ last.status = 200
    /\ Len(last.body) = 4
    /\ RowsOf(last.prev, ORDERS)[2][5] = "[1,2" /\ last.body[1]["items"] = <<>>
    /\ RowsOf(last.prev, ORDERS)[3][5] = "" /\ last.body[2]["items"] = <<>>
    /\ RowsOf(last.prev, ORDERS)[4][5] = "5" /\ last.body[3]["items"] = <<>>
    /\ last.body[4]["items"] = <<"pizza", "cola">>

\* The rows that carried the requested id in the id column before the last request.
Matches ==
    LET before == GetAllValues(RowsOf(last.prev, last.sheet))
        id_col == IndexOf(before[1], "id")
    IN IF before = <<>> \/ id_col = 0 THEN {}
       ELSE {i \in 2..Len(before) : before[i][id_col] = last.id}

FirstMatch == CHOOSE i \in Matches : \A j \in Matches : i <= j

\* C20: when several data rows carry the same id, a successful update-by-id
\* or delete-by-id acts on the one with the smallest row index and on no
\* other row: the later duplicates are as they were.
C20_FirstMatchWins ==
    (Did(Updates \cup Deletes, 200) /\ Cardinality(Matches) >= 2) =>
        LET before == RowsOf(last.prev, last.sheet)
            after == RowsOf(workbook, last.sheet)
        IN
        /\ last.op \in Updates =>
             /\ Len(after) = Len(before)
             /\ after[FirstMatch] # before[FirstMatch]
             /\ \A i \in 1..Len(before) : i # FirstMatch => after[i] = before[i]
        /\ last.op \in Deletes => after = RemoveAt(before, FirstMatch)
        /\ \A n \in SheetNames \ {last.sheet} : workbook[n] = last.prev[n]

\* An id carried by two rows was updated or deleted.
C20_Witness ==
    /\ Did({"update_order"}, 200)
    /\ Cardinality(Matches) = 2
    /\ RowsOf(workbook, ORDERS)[3] = RowsOf(last.prev, ORDERS)[3]

\* C12: update-by-id and delete-by-id are a read-then-write that is not
\* atomic: the write goes to the row index the request's own scan located
\* for id X, whatever the table holds when the write is made.  When another
\* request deleted an earlier row in between, the write (overwrite or row
\* deletion) hits a row whose id is not X, or a position past the last row
\* (the states C12_Witness and C12_PastLastRow); when the table is as the
\* scan saw it, it hits the row of X.
C12_WriteAtScannedIndex ==
    last.op \in {"write_update", "write_delete"} =>
        LET req == last.input.req
            before == last.input.before
            after == RowsOf(workbook, req.sheet)
        IN
        /\ req.idx >= 2
        /\ after = IF last.op = "write_update"
                   THEN UpdateRow(before, req.idx, req.row)
                   ELSE DeleteRows(before, req.idx)
        /\ GetAllValues(before) = req.all_values =>
             /\ req.idx <= Len(before)
             /\ before[req.idx][1] = req.id
             /\ \A i \in 2..(req.idx - 1) : before[i][1] # req.id

\* An update's write overwrote a row whose id is not the requested one,
\* because a delete of an earlier row was made between its scan and its write.
C12_Witness ==
    /\ last.op = "write_update"
    /\ last.input.req.idx <= Len(last.input.before)
    /\ last.input.before[last.input.req.idx][1] # last.input.req.id
    /\ RowsOf(workbook, last.sheet)[last.input.req.idx][1] = last.input.req.id
    /\ \E i \in 2..Len(last.input.before) :
         /\ i < last.input.req.idx
         /\ last.input.before[i][1] = last.input.req.id

\* A delete's write was addressed past the last row: the row of the
\* requested id is still in the table after the request succeeded.
C12_PastLastRow ==
    /\ last.op = "write_delete"
    /\ last.input.req.idx > Len(last.input.before)
    /\ \E i \in 2..Len(RowsOf(workbook, last.sheet)) :
         RowsOf(workbook, last.sheet)[i][1] = last.input.req.id

\* The rows of a table that are not blank, in order.
Records(rows) == SelectSeq(rows, LAMBDA r : ~IsBlankRow(r))

\* The rows successful creates appended to table n, in order.
CreatedIn(n) ==
    LET mine == SelectSeq(last.input.created, LAMBDA c : c[1] = n) IN
    [i \in 1..Len(mine) |-> mine[i][2]]

\* C13: concurrent appends are safe: when record-creating requests have run
\* in any interleaving, with no update or delete, and none is in flight any
\* more, every table holds the records it held before followed by exactly
\* the rows of the successful creates, one per request: none is lost,
\* duplicated or overwritten.
C13_ConcurrentCreatesKeepRows ==
    (last.op # "none" /\ pending = {} /\ ~last.input.disturbed) =>
        \A n \in Tables :
            Records(RowsOf(workbook, n)) = Records(RowsOf(last.prev, n)) \o CreatedIn(n)

\* C21: a call log is created exactly for accepted calls.  The webhook calls
\* create_call_log if and only if it is about to return the provider's
\* markup: on every fallback path no append is attempted and the Call Logs
\* table is as it was; for an accepted call the append is attempted and,
\* when the backend accepts it, exactly one row is added at the end, with
\* the caller's phone, duration "0" and status in-progress; when the append
\* fails the failure is swallowed, the table is as it was, and the webhook
\* still returns the provider's markup.  No other table is written.
C21_CallLogForAcceptedCalls ==
    last.op = "inbound_call" =>
        LET before == RowsOf(last.prev, CALLS)
            after == RowsOf(workbook, CALLS)
            accepted == UsableMarkup(last.input.resp)
            n == FirstSettled(last.outs)
        IN
        /\ \A name \in SheetNames \ {CALLS} : workbook[name] = last.prev[name]
        /\ ~accepted => (after = before /\ last.attempts = 0 /\ last.body \in Fallbacks)
        /\ accepted =>
             /\ last.body = last.input.resp.twiml
             /\ last.attempts = n
             /\ last.outs[n] = OK =>
                  /\ Len(after) = Len(before) + 1
                  /\ SubSeq(after, 1, Len(before)) = before
                  /\ after[Len(after)][1] = last.newId
                  /\ after[Len(after)][3] \in Callers
                  /\ SubSeq(after[Len(after)], 4, 8) = <<"0", "in-progress", "", "", "">>
             /\ last.outs[n] # OK => after = before

\* An accepted call was logged: the append was accepted on its second
\* attempt and the table has one more row, in progress.
C21_Witness ==
    /\ last.op = "inbound_call"
    /\ UsableMarkup(last.input.resp)
    /\ last.outs = <<APIERROR, OK, OK>>
    /\ Len(RowsOf(workbook, CALLS)) = Len(RowsOf(last.prev, CALLS)) + 1
    /\ RowsOf(workbook, CALLS)[Len(RowsOf(workbook, CALLS))][5] = "in-progress"
    /\ last.body = PlainMarkup

\* No call log was written for a call answered with a fallback markup.
C21_FallbackUnlogged ==
    /\ last.op = "inbound_call"
    /\ last.body = ResponseError
    /\ workbook = last.prev

\* C22: run without concurrent operations, add_faq deletes exactly the data
\* rows whose cells are all blank, from the highest row index to the lowest,
\* so that each deletion hits the intended row: afterwards every data row
\* that is not blank is still present with its values and in the same
\* relative order, no blank data row is left, the header is untouched, and
\* the new FAQ is the last row.
C22_PruneKeepsRecords ==
    (last.op = "add_faq" /\ FAQ(last.input).ok) =>
        LET before == RowsOf(last.prev, FAQS)
            after == RowsOf(workbook, FAQS)
            header == IF before = <<>> THEN <<>> ELSE <<before[1]>>
            kept == IF before = <<>> THEN <<>> ELSE Records(Tail(before))
        IN
        /\ last.status = 200 =>
             /\ after = Append(header \o kept, after[Len(after)])
             /\ after[Len(after)][1] = last.newId
             /\ after[Len(after)][2] = Validated.question
             /\ after[Len(after)][3] = Validated.answer
        /\ last.status # 200 => after = header \o kept
        /\ last.writes = (Len(before) - Len(header \o kept)) + last.attempts

\* A FAQ was added to a table with two blank rows, each in front of a
\* record: both blank rows are gone and both records are in place.
C22_Witness ==
    /\ Did({"add_faq"}, 200)
    /\ Len(RowsOf(last.prev, FAQS)) = 5
    /\ IsBlankRow(RowsOf(last.prev, FAQS)[2]) /\ IsBlankRow(RowsOf(last.prev, FAQS)[4])
    /\ Len(RowsOf(workbook, FAQS)) = 4
    /\ RowsOf(workbook, FAQS)[2] = RowsOf(last.prev, FAQS)[3]
    /\ RowsOf(workbook, FAQS)[3] = RowsOf(last.prev, FAQS)[5]

\* C23: the tool-call ingestion endpoints (order-complete and
\* reservation-complete) answer a payload that does not contain
\* message.toolCalls[0].function.arguments (message missing, toolCalls
\* missing, toolCalls an empty list, function or arguments missing) with a
\* client error, status 400, and write no row.
C23_IncompletePayloadIs400 ==
    (last.op \in {"handle_order", "handle_reservation"} /\ last.input.shape # FULL) =>
        /\ last.status = 400
        /\ workbook = last.prev

\* C24: under any interleaving of add_faq with other add_faq, update or
\* delete requests on the FAQs table, the pruning step of add_faq never
\* removes a row that is not blank at the moment it is deleted, and every
\* FAQ row that was successfully created is still in the table as long as
\* no update or delete request has written.
C24_PruneRemovesOnlyBlankRows ==
    /\ last.op = "add_faq_prune" =>
          LET before == last.input.before
              empty_rows == last.input.req.empty_rows
              ridx == CHOOSE i \in empty_rows : \A j \in empty_rows : j <= i
          IN ridx <= Len(before) => IsBlankRow(before[ridx])
    /\ (last.op # "none" /\ ~last.input.disturbed) =>
          \A k \in 1..Len(last.input.created) :
              last.input.created[k][1] = FAQS =>
                  \E i \in 2..Len(RowsOf(workbook, FAQS)) :
                      RowsOf(workbook, FAQS)[i] = last.input.created[k][2]

\* The table found with a drifted header.
DriftedTables == {n \in {ORDERS, RESERVATIONS} : RowsOf(last.prev, n)[1] # SHEET_COLUMNS[n]}

\* C25: starting from an Orders or Reservations table whose header has
\* drifted, under any interleaving of listing requests (each of which heals
\* by clear, then append of the header) with each other and with create
\* requests, once a listing has healed and all requests have finished,
\* row 1 of the table equals the expected column list (so no data record
\* sits in row 1) and no copy of the header sits in a data row.
C25_HealedHeaderInRow1Only ==
    (last.op # "none" /\ pending = {} /\ last.input.disturbed) =>
        \A n \in DriftedTables :
            LET rows == RowsOf(workbook, n) IN
            /\ rows # <<>>
            /\ rows[1] = SHEET_COLUMNS[n]
            /\ \A i \in 2..Len(rows) : rows[i] # SHEET_COLUMNS[n]

\* C26: update-by-id, delete-by-id and the blank-row pruning of add_faq
\* never target the header: under every interleaving the row index a scan
\* locates, and every index the pruning collects, is at least 2, and row 1
\* of the table is the same after the write, the row deletion or the
\* pruning step as before it, also when the requested id is the text of a
\* header cell.
C26_HeaderNeverTargeted ==
    /\ (last.op \in {"scan_update", "scan_delete"} /\ last.raised = NOEXC) =>
          last.input.req.idx >= 2
    /\ (last.op \in {"scan_update", "scan_delete"} /\ last.id = HeaderId) =>
          last.raised = NOTFOUND
    /\ last.op = "add_faq_read" => \A i \in last.input.req.empty_rows : i >= 2
    /\ last.op \in {"write_update", "write_delete", "add_faq_prune"} =>
          /\ RowsOf(workbook, last.sheet) # <<>>
          /\ RowsOf(workbook, last.sheet)[1] = last.input.before[1]
          /\ RowsOf(workbook, last.sheet)[1] = RowsOf(last.prev, last.sheet)[1]

\* A delete was written at row 2 after another request had removed a row:
\* the header is in place.
C26_Witness ==
    /\ last.op = "write_delete"
    /\ last.input.req.idx = 2
    /\ last.input.disturbed
    /\ Len(RowsOf(workbook, last.sheet)) < Len(RowsOf(last.prev, last.sheet)) - 1
    /\ RowsOf(workbook, last.sheet)[1] = SHEET_COLUMNS[last.sheet]

\* The id "id" was asked for: the scan skipped the header and found no row.
C26_HeaderTextRequested ==
    /\ last.op = "scan_delete"
    /\ last.id = HeaderId
    /\ last.raised = NOTFOUND
    /\ workbook = last.prev

====
